---- MODULE Spec2Model ----
(***************************************************************************)
(* A model of librec, the codec library of recverify:                      *)
(*   - bit_stream.rs : BitStream, reads and writes of 1..64 bits           *)
(*   - recording.rs  : Move / Frame / Recording binary layout              *)
(*   - tas_rec.rs    : TasFile text printer and parser                     *)
(*                                                                         *)
(* Representation of machine integers.  TLC integers are 32 bits wide, so  *)
(* a u8 and a u16 are plain numbers, a u32 is the sequence <<lo, hi>> of   *)
(* its two 16-bit limbs and a u64 the sequence <<l0, l1, l2, l3>> of its   *)
(* four 16-bit limbs, least significant first.                             *)
(*                                                                         *)
(* A Result is the record [ok, bs, val]: whether the call returned Ok, the *)
(* stream as the call left it, and the value of an Ok.  Bind and Then are  *)
(* the `?` operator: they run the rest of a function on an Ok and return   *)
(* an Err as it is.                                                        *)
(***************************************************************************)
EXTENDS Integers, Sequences, FiniteSets, TLC

VARIABLES
    pc,     \* position of the driver that calls the library
    bs,     \* the BitStream being written or read: data, bit_offset, byte_offset
    wire,   \* the bytes handed from the encoder to the decoder (the .rec file)
    arg,    \* the input the driver was started with
    ret     \* what the last library call returned

vars == <<pc, bs, wire, arg, ret>>

(***************************************************************************)
(* Arithmetic helpers                                                      *)
(***************************************************************************)
Min(a, b) == IF a <= b THEN a ELSE b

Max(a, b) == IF a >= b THEN a ELSE b

Pow2(n) == 2 ^ n

\* bit i (0 = least significant) of x
Bit(x, i) == (x \div Pow2(i)) % 2

\* a | b on unsigned integers
RECURSIVE Or8(_, _)
Or8(a, b) ==
    IF a = 0 THEN b
    ELSE IF b = 0 THEN a
    ELSE Max(a % 2, b % 2) + 2 * Or8(a \div 2, b \div 2)

\* a & b on unsigned integers
RECURSIVE And8(_, _)
And8(a, b) ==
    IF a = 0 \/ b = 0 THEN 0
    ELSE (a % 2) * (b % 2) + 2 * And8(a \div 2, b \div 2)

\* (x << n) on u8: bits shifted past bit 7 are lost
Shl8(x, n) == (x * Pow2(n)) % 256

\* (x >> n) on u8
Shr8(x, n) == x \div Pow2(n)

\* 0xFF >> n on u8, for 0 <= n <= 8; without overflow checks a shift by 8 is
\* a shift by 8 % 8
LowMask(n) == 255 \div Pow2(n % 8)

\* number of bits of a value of `bits` bits that fall into 16-bit limb i (1-based)
LimbBits(bits, i) == Min(16, Max(0, bits - 16 * (i - 1)))

\* value < (1 << bits) for a value held as 16-bit limbs
FitsLimbs(v, bits) == \A i \in 1..Len(v) : v[i] < Pow2(LimbBits(bits, i))

(***************************************************************************)
(* BitStream (bit_stream.rs)                                               *)
(***************************************************************************)
\* BitStream::new
NewBitStream(data) == [data |-> data, bit_offset |-> 0, byte_offset |-> 0]

\* BitStream::eof
Eof(s) == s.byte_offset >= Len(s.data)

\* BitStream::seek
Seek(s, byte_offset, bit_offset) ==
    [s EXCEPT !.byte_offset = byte_offset, !.bit_offset = bit_offset]

\* Ok(v), the stream left as s
Ok(s, v) == [ok |-> TRUE, bs |-> s, val |-> v]

\* Err(..), the stream left as s
Err(s) == [ok |-> FALSE, bs |-> s, val |-> 0]

\* `let x = r?; F(x)`: F gets the whole Ok result, its stream and its value
Bind(r, F(_)) == IF ~r.ok THEN r ELSE F(r)

\* `r?; F()`: F gets the stream the Ok result left
Then(r, F(_)) == IF ~r.ok THEN r ELSE F(r.bs)

\* Vec::resize(n, 0) for n >= len
Resize(data, n) == data \o [i \in 1..(n - Len(data)) |-> 0]

\* read_bits_u8 whose end-of-data check also refuses a read that ends with the
\* last byte
ReadBitsU8_EofAtBoundary(s, bits) ==
    IF bits > 8 THEN Err(s)
    ELSE IF \/ s.byte_offset >= Len(s.data)
            \/ (s.byte_offset = Len(s.data) - 1 /\ s.bit_offset + bits >= 8)
    THEN Err(s)
    ELSE IF s.bit_offset + bits >= 8
    THEN Ok([s EXCEPT !.byte_offset = s.byte_offset + 1,
                      !.bit_offset = (s.bit_offset + bits) % 8], 0)
    ELSE Ok([s EXCEPT !.bit_offset = s.bit_offset + bits], 0)

\* BitStream::read_bits_u8; bits = 0 as a build without overflow checks runs it
ReadBitsU8(s, bits) ==
    IF bits > 8 THEN Err(s)
    ELSE IF \/ s.byte_offset >= Len(s.data)
            \/ (s.byte_offset = Len(s.data) - 1 /\ s.bit_offset + bits > 8)
    THEN Err(s)
    ELSE IF s.bit_offset + bits >= 8
    THEN LET extra  == (s.bit_offset + bits) % 8
             remain == bits - extra
             first  == Shr8(s.data[s.byte_offset + 1], s.bit_offset)
             second == IF extra > 0
                       THEN Shl8(And8(s.data[s.byte_offset + 2], LowMask(8 - extra)),
                                 remain)
                       ELSE 0
         IN  Ok([s EXCEPT !.byte_offset = s.byte_offset + 1, !.bit_offset = extra],
                Or8(first, second))
    ELSE Ok([s EXCEPT !.bit_offset = s.bit_offset + bits],
            And8(Shr8(s.data[s.byte_offset + 1], s.bit_offset), LowMask(8 - bits)))

\* `*last |= v` for the byte `last` at byte_offset
OrIntoLast(s, v) ==
    [s.data EXCEPT ![s.byte_offset + 1] = Or8(s.data[s.byte_offset + 1], v)]

\* write_bits_u8 after its checks, with `self.data.push(second)` done also
\* when extra is 0
WriteSanitized_PushAlways(s, san_value, bits) ==
    IF s.bit_offset + bits >= 8
    THEN Ok([data |-> Append(OrIntoLast(s, Shl8(And8(san_value,
                                 LowMask(8 - (bits - ((s.bit_offset + bits) % 8)))),
                                 s.bit_offset)),
                             Shr8(san_value, bits - ((s.bit_offset + bits) % 8))),
             bit_offset |-> (s.bit_offset + bits) % 8,
             byte_offset |-> s.byte_offset + 1], 0)
    ELSE Ok([data |-> OrIntoLast(s, And8(Shl8(san_value, s.bit_offset),
                                         LowMask(8 - bits - s.bit_offset))),
             bit_offset |-> s.bit_offset + bits,
             byte_offset |-> s.byte_offset], 0)

\* the part of write_bits_u8 after `self.data.resize(..)`: s holds the byte at
\* byte_offset, san_value is the sanitized value
WriteSanitized(s, san_value, bits) ==
    IF s.bit_offset + bits >= 8
    THEN LET extra  == (s.bit_offset + bits) % 8
             remain == bits - extra
             first  == And8(san_value, LowMask(8 - remain))
             second == And8(Shr8(san_value, remain), LowMask(8 - extra))
             data2  == OrIntoLast(s, Shl8(first, s.bit_offset))
         IN  Ok([data |-> IF extra > 0 THEN Append(data2, second) ELSE data2,
                 bit_offset |-> extra,
                 byte_offset |-> s.byte_offset + 1], 0)
    ELSE Ok([data |-> OrIntoLast(s, And8(Shl8(san_value, s.bit_offset),
                                         LowMask(8 - bits - s.bit_offset))),
             bit_offset |-> s.bit_offset + bits,
             byte_offset |-> s.byte_offset], 0)

\* BitStream::write_bits_u8, for 1 <= bits
WriteBitsU8(s, value, bits) ==
    IF bits > 8 THEN Err(s)
    ELSE IF ~(bits = 8 \/ value < Pow2(bits)) THEN Err(s)
    ELSE WriteSanitized(
             IF Len(s.data) <= s.byte_offset
             THEN [s EXCEPT !.data = Resize(s.data, s.byte_offset + 1)]
             ELSE s,
             And8(value, LowMask(8 - bits)), bits)

\* BitStream::read_bits_u16, for 1 <= bits <= 16
ReadBitsU16(s, bits) ==
    Bind(ReadBitsU8(s, Min(bits, 8)), LAMBDA lower :
        IF bits <= 8 THEN lower
        ELSE Bind(ReadBitsU8(lower.bs, bits - 8), LAMBDA upper :
                 Ok(upper.bs, lower.val + 256 * upper.val)))

\* BitStream::read_bits_u32, for 1 <= bits <= 32; the value as <<lo, hi>>
ReadBitsU32(s, bits) ==
    Bind(ReadBitsU16(s, Min(bits, 16)), LAMBDA lower :
        IF bits <= 16 THEN Ok(lower.bs, <<lower.val, 0>>)
        ELSE Bind(ReadBitsU16(lower.bs, bits - 16), LAMBDA upper :
                 Ok(upper.bs, <<lower.val, upper.val>>)))

\* BitStream::read_bits_u64, for 1 <= bits <= 64; the value as four limbs
ReadBitsU64(s, bits) ==
    Bind(ReadBitsU32(s, Min(bits, 32)), LAMBDA lower :
        IF bits <= 32 THEN Ok(lower.bs, lower.val \o <<0, 0>>)
        ELSE Bind(ReadBitsU32(lower.bs, bits - 32), LAMBDA upper :
                 Ok(upper.bs, lower.val \o upper.val)))

\* BitStream::write_bits_u16 without its own range check
WriteBitsU16_NoRangeCheck(s, value, bits) ==
    Then(WriteBitsU8(s, value % 256, Min(bits, 8)), LAMBDA t :
        IF bits <= 8 THEN Ok(t, 0) ELSE WriteBitsU8(t, value \div 256, bits - 8))

\* BitStream::write_bits_u16, for 1 <= bits <= 16
WriteBitsU16(s, value, bits) ==
    IF ~(bits = 16 \/ value < Pow2(bits)) THEN Err(s)
    ELSE Then(WriteBitsU8(s, value % 256, Min(bits, 8)), LAMBDA t :
             IF bits <= 8 THEN Ok(t, 0) ELSE WriteBitsU8(t, value \div 256, bits - 8))

\* BitStream::write_bits_u32, for 1 <= bits <= 32; value is <<lo, hi>>
WriteBitsU32(s, value, bits) ==
    IF ~(bits = 32 \/ FitsLimbs(value, bits)) THEN Err(s)
    ELSE Then(WriteBitsU16(s, value[1], Min(bits, 16)), LAMBDA t :
             IF bits <= 16 THEN Ok(t, 0) ELSE WriteBitsU16(t, value[2], bits - 16))

\* BitStream::write_bits_u64, for 1 <= bits <= 64; value is four limbs.
\* The low half is (value & 0xFF_FF_FF) as u32: bits 24..31 are dropped.
WriteBitsU64(s, value, bits) ==
    IF ~(bits = 64 \/ FitsLimbs(value, bits)) THEN Err(s)
    ELSE Then(WriteBitsU32(s, <<value[1], And8(value[2], 255)>>, Min(bits, 32)),
              LAMBDA t :
             IF bits <= 32 THEN Ok(t, 0)
             ELSE WriteBitsU32(t, <<value[3], value[4]>>, bits - 32))

(***************************************************************************)
(* f64 arithmetic.  The codec computes with IEEE-754 binary64 values       *)
(* (`*`, `+`, `-`, `/`, `as u64`, comparisons), and its results depend on  *)
(* the rounding of these operations, so they are computed exactly.         *)
(* A natural number of any size is a sequence of 15-bit limbs, least       *)
(* significant first, with no zero limb on top (BN).  A finite f64 is the  *)
(* record [neg, m, e] of value (-1)^neg * m * 2^e whose m is zero or has   *)
(* exactly 53 bits.  Infinities, NaN, subnormals and the sign of zero are  *)
(* outside the model.                                                      *)
(***************************************************************************)
BNBase == Pow2(15)

SetMax(S) == CHOOSE x \in S : \A y \in S : y <= x

\* limb i of a, zero above its top
BNLimb(a, i) == IF i >= 1 /\ i <= Len(a) THEN a[i] ELSE 0

\* a without its zero limbs on top
BNNorm(a) ==
    LET nz == {i \in 1..Len(a) : a[i] # 0}
    IN  IF nz = {} THEN <<>> ELSE SubSeq(a, 1, SetMax(nz))

BNFromInt(n) == BNNorm(<<n % BNBase, (n \div BNBase) % BNBase, n \div (BNBase * BNBase)>>)

\* number of bits of a number below 2^15
BitLen15(x) == CHOOSE n \in 0..15 : x < Pow2(n) /\ (n = 0 \/ x >= Pow2(n - 1))

BNBitLen(a) == IF a = <<>> THEN 0 ELSE 15 * (Len(a) - 1) + BitLen15(a[Len(a)])

BNBit(a, i) == Bit(BNLimb(a, i \div 15 + 1), i % 15)

\* the n bits of a from bit i on, as a number
RECURSIVE BNBits(_, _, _)
BNBits(a, i, n) == IF n = 0 THEN 0 ELSE BNBit(a, i) + 2 * BNBits(a, i + 1, n - 1)

\* some bit among the low n bits of a is set
BNLowNonZero(a, n) ==
    \E j \in 1..Len(a) :
        /\ 15 * (j - 1) < n
        /\ a[j] % Pow2(Min(15, n - 15 * (j - 1))) # 0

\* a * 2^n
BNShl(a, n) ==
    BNNorm([i \in 1..(Len(a) + (n \div 15) + 1) |->
              ((BNLimb(a, i - (n \div 15)) * Pow2(n % 15)) % BNBase)
              + (BNLimb(a, i - (n \div 15) - 1) \div Pow2(15 - (n % 15)))])

\* floor(a / 2^n)
BNShr(a, n) ==
    IF n \div 15 >= Len(a) THEN <<>>
    ELSE BNNorm([i \in 1..(Len(a) - (n \div 15)) |->
                   (BNLimb(a, i + (n \div 15)) \div Pow2(n % 15))
                   + ((BNLimb(a, i + (n \div 15) + 1) % Pow2(n % 15)) * Pow2(15 - (n % 15)))])

\* a + b
BNAdd(a, b) ==
    LET c[i \in 0..Max(Len(a), Len(b)) + 1] ==
            IF i = 0 THEN 0 ELSE (BNLimb(a, i) + BNLimb(b, i) + c[i - 1]) \div BNBase
    IN  BNNorm([i \in 1..(Max(Len(a), Len(b)) + 1) |->
                  (BNLimb(a, i) + BNLimb(b, i) + c[i - 1]) % BNBase])

\* a - b, for a >= b
BNSub(a, b) ==
    LET br[i \in 0..Len(a)] ==
            IF i = 0 THEN 0
            ELSE IF BNLimb(a, i) - BNLimb(b, i) - br[i - 1] < 0 THEN 1 ELSE 0
    IN  BNNorm([i \in 1..Len(a) |->
                  (BNLimb(a, i) - BNLimb(b, i) - br[i - 1] + BNBase) % BNBase])

\* -1, 0, 1 as a < b, a = b, a > b
BNCmp(a, b) ==
    IF Len(a) # Len(b) THEN (IF Len(a) < Len(b) THEN -1 ELSE 1)
    ELSE LET d == {i \in 1..Len(a) : a[i] # b[i]}
         IN  IF d = {} THEN 0
             ELSE IF a[SetMax(d)] < b[SetMax(d)] THEN -1 ELSE 1

\* a * k, for k < 2^15
BNMulSmall(a, k) ==
    LET c[i \in 0..Len(a) + 1] ==
            IF i = 0 THEN 0 ELSE (BNLimb(a, i) * k + c[i - 1]) \div BNBase
    IN  BNNorm([i \in 1..(Len(a) + 1) |-> (BNLimb(a, i) * k + c[i - 1]) % BNBase])

\* a * (the limbs of b from limb j on), acc the sum of the products so far
RECURSIVE BNMulFrom(_, _, _, _)
BNMulFrom(a, b, j, acc) ==
    IF j > Len(b) THEN acc
    ELSE BNMulFrom(a, b, j + 1, BNAdd(acc, BNShl(BNMulSmall(a, b[j]), 15 * (j - 1))))

\* a * b
BNMul(a, b) == BNMulFrom(a, b, 1, <<>>)

\* r - b * q with the digit q
BNDivRest(r, b, q) == <<q, BNSub(r, BNMulSmall(b, q))>>

\* one limb of long division: floor(r / b) and the remainder, for a divisor b of
\* four limbs whose top limb is at least 2^14 and r < b * 2^15.  The digit is
\* estimated from the top limbs and is at most 2 too large.
BNDivDigit(r, b) ==
    LET est == Min((BNLimb(r, 5) * BNBase + BNLimb(r, 4)) \div b[4], BNBase - 1)
        fits(c) == c >= 0 /\ BNCmp(BNMulSmall(b, c), r) <= 0
    IN  BNDivRest(r, b, IF fits(est) THEN est ELSE IF fits(est - 1) THEN est - 1
                        ELSE est - 2)

\* long division of r by b, limb by limb: q holds the digits found so far, least
\* significant first.  The result is the 5-digit quotient and whether a
\* remainder is left.
RECURSIVE BNDivLoop(_, _, _)
BNDivLoop(r, b, q) ==
    IF Len(q) = 5 THEN <<BNNorm(q), r # <<>>>>
    ELSE LET d == BNDivDigit(r, b)
         IN  BNDivLoop(BNShl(d[2], 15), b, <<d[1]>> \o q)

\* floor(a * 2^60 / b) and whether the division left a remainder, for a and b of
\* exactly 53 bits
BNDiv60(a, b) == BNDivLoop(BNShl(a, 7), BNShl(b, 7), <<>>)

FZero == [neg |-> FALSE, m |-> <<>>, e |-> 0]

\* q1 * 2^e for a q1 of 53 or 54 bits (54 after a carry out of the rounding)
FCarry(neg, q1, e) ==
    IF BNBitLen(q1) = 54 THEN [neg |-> neg, m |-> BNShr(q1, 1), e |-> e + 1]
    ELSE [neg |-> neg, m |-> q1, e |-> e]

\* the bits of m below bit sh round up: above half, or half with bit sh odd
FRoundsUp(m, sh) ==
    /\ BNBit(m, sh - 1) = 1
    /\ (BNLowNonZero(m, sh - 1) \/ BNBit(m, sh) = 1)

\* FRound for an m of len bits
FRoundLen(neg, m, e, len) ==
    IF len = 0 THEN FZero
    ELSE IF len <= 53
    THEN [neg |-> neg, m |-> BNShl(m, 53 - len), e |-> e - (53 - len)]
    ELSE FCarry(neg,
                BNAdd(BNShr(m, len - 53),
                      IF FRoundsUp(m, len - 53) THEN <<1>> ELSE <<>>),
                e + len - 53)

\* (-1)^neg * m * 2^e rounded to the nearest f64, ties to even
FRound(neg, m, e) == FRoundLen(neg, m, e, BNBitLen(m))

\* an integer (below 2^30 in size) as f64
FInt(n) == FRound(n < 0, BNFromInt(IF n < 0 THEN 0 - n ELSE n), 0)

\* -a
FNeg(a) == IF a.m = <<>> THEN a ELSE [a EXCEPT !.neg = ~a.neg]

\* -1, 0, 1 as |a| < |b|, |a| = |b|, |a| > |b|
FCmpAbs(a, b) ==
    IF a.m = <<>> \/ b.m = <<>>
    THEN (IF a.m = b.m THEN 0 ELSE IF a.m = <<>> THEN -1 ELSE 1)
    ELSE IF a.e # b.e THEN (IF a.e < b.e THEN -1 ELSE 1)
    ELSE BNCmp(a.m, b.m)

\* a < b
FLt(a, b) ==
    IF a.neg # b.neg THEN a.neg
    ELSE FCmpAbs(a, b) = (IF a.neg THEN 1 ELSE -1)

\* a >= b
FGe(a, b) == ~FLt(a, b)

\* (-1)^an * am * 2^e + (-1)^bn * bm * 2^e
FAddAligned(an, am, bn, bm, e) ==
    IF an = bn THEN FRound(an, BNAdd(am, bm), e)
    ELSE FRound(IF BNCmp(am, bm) >= 0 THEN an ELSE bn,
                IF BNCmp(am, bm) >= 0 THEN BNSub(am, bm) ELSE BNSub(bm, am), e)

\* a + b
FAdd(a, b) ==
    IF a.m = <<>> THEN b
    ELSE IF b.m = <<>> THEN a
    ELSE FAddAligned(a.neg, BNShl(a.m, a.e - Min(a.e, b.e)),
                     b.neg, BNShl(b.m, b.e - Min(a.e, b.e)), Min(a.e, b.e))

\* a - b
FSub(a, b) == FAdd(a, FNeg(b))

\* a * b
FMul(a, b) ==
    IF a.m = <<>> \/ b.m = <<>> THEN FZero
    ELSE FRound(a.neg # b.neg, BNMul(a.m, b.m), a.e + b.e)

\* the quotient qr = <<q, inexact>> of the mantissas, rounded: q with a sticky
\* bit below it
FDivRound(neg, qr, e) ==
    FRound(neg, BNAdd(BNShl(qr[1], 1), IF qr[2] THEN <<1>> ELSE <<>>), e)

\* a / b, for b # 0: 61 quotient bits and a sticky bit, then rounded
FDiv(a, b) ==
    IF a.m = <<>> THEN FZero
    ELSE FDivRound(a.neg # b.neg, BNDiv60(a.m, b.m), a.e - b.e - 61)

\* the integer part of |a| as a BN
FTruncBN(a) ==
    IF a.m = <<>> THEN <<>>
    ELSE IF a.e >= 0 THEN BNShl(a.m, a.e)
    ELSE BNShr(a.m, 0 - a.e)

\* the low 64 bits of t as four 16-bit limbs
BNToU64(t) == <<BNBits(t, 0, 16), BNBits(t, 16, 16), BNBits(t, 32, 16), BNBits(t, 48, 16)>>

\* `a as u64`: truncated toward zero, negative values give 0, values of 2^64 and
\* above give u64::MAX; the result as four 16-bit limbs
FToU64(a) ==
    IF a.neg \/ a.m = <<>> THEN <<0, 0, 0, 0>>
    ELSE IF a.e + 53 > 64 THEN <<65535, 65535, 65535, 65535>>
    ELSE BNToU64(FTruncBN(a))

\* the n bits from bit i on of a u64 held as four 16-bit limbs
RECURSIVE U64Bits(_, _, _)
U64Bits(v, i, n) ==
    IF n = 0 \/ i >= 64 THEN 0
    ELSE Bit(v[i \div 16 + 1], i % 16) + 2 * U64Bits(v, i + 1, n - 1)

\* `v as f64` for a u64 v held as four 16-bit limbs
FFromU64(v) ==
    FRound(FALSE,
           BNNorm(<<U64Bits(v, 0, 15), U64Bits(v, 15, 15), U64Bits(v, 30, 15),
                    U64Bits(v, 45, 15), U64Bits(v, 60, 15)>>), 0)

\* std::f64::consts::PI = 0x1921FB54442D18 * 2^-51
PI == [neg |-> FALSE, m |-> <<11544, 10376, 2029, 201>>, e |-> -51]

(***************************************************************************)
(* BitStream helpers built on the bit reads and writes (bit_stream.rs)     *)
(***************************************************************************)
\* Option<T>: None is <<>>, Some(v) is <<v>>
None == <<>>

Some(v) == <<v>>

\* BitStream::read_bool
ReadBool(s) == Bind(ReadBitsU8(s, 1), LAMBDA r : Ok(r.bs, r.val = 1))

\* BitStream::write_bool
WriteBool(s, value) == WriteBitsU8(s, IF value THEN 1 ELSE 0, 1)

\* BitStream::read_u8
ReadU8(s) == ReadBitsU8(s, 8)

\* BitStream::write_u8
WriteU8(s, value) == WriteBitsU8(s, value, 8)

\* `for byte in bytes { bs.write_u8(byte)?; }` from byte i on
RECURSIVE WriteBytes(_, _, _)
WriteBytes(s, bytes, i) ==
    IF i > Len(bytes) THEN Ok(s, 0)
    ELSE Then(WriteU8(s, bytes[i]), LAMBDA t : WriteBytes(t, bytes, i + 1))

\* `for _ in 0..length { bytes.push(self.read_bits_u8(8)?); }`
RECURSIVE ReadBytes(_, _, _)
ReadBytes(s, length, bytes) ==
    IF Len(bytes) = length THEN Ok(s, bytes)
    ELSE Bind(ReadU8(s), LAMBDA r : ReadBytes(r.bs, length, Append(bytes, r.val)))

\* String::from_utf8 succeeds: the bytes from i on are well-formed UTF-8
RECURSIVE Utf8From(_, _)
Utf8From(b, i) ==
    LET in(j, lo, hi) == j <= Len(b) /\ b[j] >= lo /\ b[j] <= hi
        cont(j) == in(j, 128, 191)
    IN  IF i > Len(b) THEN TRUE
        ELSE IF b[i] <= 127 THEN Utf8From(b, i + 1)
        ELSE IF in(i, 194, 223) THEN cont(i + 1) /\ Utf8From(b, i + 2)
        ELSE IF b[i] = 224 THEN in(i + 1, 160, 191) /\ cont(i + 2) /\ Utf8From(b, i + 3)
        ELSE IF in(i, 225, 236) \/ in(i, 238, 239)
             THEN cont(i + 1) /\ cont(i + 2) /\ Utf8From(b, i + 3)
        ELSE IF b[i] = 237 THEN in(i + 1, 128, 159) /\ cont(i + 2) /\ Utf8From(b, i + 3)
        ELSE IF b[i] = 240
             THEN in(i + 1, 144, 191) /\ cont(i + 2) /\ cont(i + 3) /\ Utf8From(b, i + 4)
        ELSE IF in(i, 241, 243)
             THEN cont(i + 1) /\ cont(i + 2) /\ cont(i + 3) /\ Utf8From(b, i + 4)
        ELSE IF b[i] = 244
             THEN in(i + 1, 128, 143) /\ cont(i + 2) /\ cont(i + 3) /\ Utf8From(b, i + 4)
        ELSE FALSE

\* BitStream::read_string; a String is the sequence of its UTF-8 bytes
ReadString(s) ==
    Bind(ReadBitsU8(s, 8), LAMBDA length :
    Bind(ReadBytes(length.bs, length.val, <<>>), LAMBDA bytes :
        IF Utf8From(bytes.val, 1) THEN bytes ELSE Err(bytes.bs)))

\* BitStream::write_string: the length is `value.len() as u8`
WriteString(s, value) ==
    Then(WriteBitsU8(s, Len(value) % 256, 8), LAMBDA t : WriteBytes(t, value, 1))

\* BitStream::read_optional
ReadOptional(s, ReadFn(_)) ==
    Bind(ReadBool(s), LAMBDA present :
        IF present.val
        THEN Bind(ReadFn(present.bs), LAMBDA r : Ok(r.bs, Some(r.val)))
        ELSE Ok(present.bs, None))

\* BitStream::write_optional
WriteOptional(s, value, WriteFn(_, _)) ==
    IF value # None
    THEN Then(WriteBool(s, TRUE), LAMBDA t : WriteFn(t, value[1]))
    ELSE WriteBool(s, FALSE)

\* BitStream::read_scaled_f64_bits
ReadScaledF64Bits(s, bits, scale, offset) ==
    Bind(ReadBitsU64(s, bits), LAMBDA inner :
        Ok(inner.bs, FAdd(FMul(FFromU64(inner.val), scale), offset)))

\* write_scaled_f64_bits that writes the low `bits` bits of the raw quantity,
\* for bits <= 16
WriteScaledF64Bits_Wrapping(s, value, bits, scale, offset) ==
    WriteBitsU64(s, <<FToU64(FDiv(FSub(value, offset), scale))[1] % Pow2(bits), 0, 0, 0>>, bits)

\* BitStream::write_scaled_f64_bits
WriteScaledF64Bits(s, value, bits, scale, offset) ==
    WriteBitsU64(s, FToU64(FDiv(FSub(value, offset), scale)), bits)

(***************************************************************************)
(* Move, Frame, Recording (recording.rs)                                   *)
(***************************************************************************)
\* 1f64 / 16f64
TransScale == FDiv(FInt(1), FInt(16))

\* -1.0f64
TransOffset == FInt(-1)

\* PI / 32768f64
AngleScale == FDiv(PI, FInt(32768))

\* 2f64 * PI
TwoPI == FMul(FInt(2), PI)

\* Move::read_angle without `if angle >= PI { angle - 2f64 * PI }`
ReadAngle_NoUnwrap(s) == ReadScaledF64Bits(s, 16, AngleScale, FZero)

\* Move::read_angle
ReadAngle(s) ==
    Bind(ReadScaledF64Bits(s, 16, AngleScale, FZero), LAMBDA angle :
        IF FGe(angle.val, PI) THEN Ok(angle.bs, FSub(angle.val, TwoPI))
        ELSE angle)

\* Move::write_angle
WriteAngle(s, angle) ==
    WriteScaledF64Bits(s, IF FLt(angle, FZero) THEN FAdd(angle, TwoPI) ELSE angle,
                       16, AngleScale, FZero)

\* `for i in 0..6 { triggers[i] = bs.read_bool()?; }`
RECURSIVE ReadBools(_, _, _)
ReadBools(s, n, triggers) ==
    IF Len(triggers) = n THEN Ok(s, triggers)
    ELSE Bind(ReadBool(s), LAMBDA r : ReadBools(r.bs, n, Append(triggers, r.val)))

\* `for i in 0..6 { bs.write_bool(self.triggers[i])?; }`
RECURSIVE WriteBools(_, _, _)
WriteBools(s, triggers, i) ==
    IF i > Len(triggers) THEN Ok(s, 0)
    ELSE Then(WriteBool(s, triggers[i]), LAMBDA t : WriteBools(t, triggers, i + 1))

\* a translation read from 7 bits
ReadTranslation_7Bits(s) == ReadScaledF64Bits(s, 7, TransScale, TransOffset)

\* `bs.read_scaled_f64_bits(6, 1f64 / 16f64, -1.0f64)` of Move::from_stream
ReadTranslation(s) == ReadScaledF64Bits(s, 6, TransScale, TransOffset)

\* `bs.write_scaled_f64_bits(.., 6, 1f64 / 16f64, -1.0f64)` of Move::into_stream
WriteTranslation(s, value) == WriteScaledF64Bits(s, value, 6, TransScale, TransOffset)

\* Move::from_stream
MoveFromStream(s) ==
    Bind(ReadOptional(s, ReadAngle), LAMBDA yaw :
    Bind(ReadOptional(yaw.bs, ReadAngle), LAMBDA pitch :
    Bind(ReadOptional(pitch.bs, ReadAngle), LAMBDA roll :
    Bind(ReadTranslation(roll.bs), LAMBDA mx :
    Bind(ReadTranslation(mx.bs), LAMBDA my :
    Bind(ReadTranslation(my.bs), LAMBDA mz :
    Bind(ReadBool(mz.bs), LAMBDA freelook :
    Bind(ReadBools(freelook.bs, 6, <<>>), LAMBDA triggers :
        Ok(triggers.bs,
           [yaw |-> yaw.val, pitch |-> pitch.val, roll |-> roll.val,
            mx |-> mx.val, my |-> my.val, mz |-> mz.val,
            freelook |-> freelook.val, triggers |-> triggers.val])))))))))

\* Move::into_stream
MoveIntoStream(s, mv) ==
    Then(WriteOptional(s, mv.yaw, WriteAngle), LAMBDA t1 :
    Then(WriteOptional(t1, mv.pitch, WriteAngle), LAMBDA t2 :
    Then(WriteOptional(t2, mv.roll, WriteAngle), LAMBDA t3 :
    Then(WriteTranslation(t3, mv.mx), LAMBDA t4 :
    Then(WriteTranslation(t4, mv.my), LAMBDA t5 :
    Then(WriteTranslation(t5, mv.mz), LAMBDA t6 :
    Then(WriteBool(t6, mv.freelook), LAMBDA t7 :
        WriteBools(t7, mv.triggers, 1))))))))

\* Frame::from_stream
FrameFromStream(s) ==
    Bind(ReadOptional(s, MoveFromStream), LAMBDA move0 :
    Bind(ReadOptional(move0.bs, MoveFromStream), LAMBDA move1 :
    Bind(ReadBitsU16(move1.bs, 10), LAMBDA delta :
        Ok(delta.bs, [moves |-> <<move0.val, move1.val>>, delta |-> delta.val]))))

\* Frame::into_stream writing the low 10 bits of the delta
FrameIntoStream_DeltaTruncated(s, frame) ==
    Then(WriteOptional(s, frame.moves[1], MoveIntoStream), LAMBDA t1 :
    Then(WriteOptional(t1, frame.moves[2], MoveIntoStream), LAMBDA t2 :
        WriteBitsU16(t2, frame.delta % 1024, 10)))

\* Frame::into_stream
FrameIntoStream(s, frame) ==
    Then(WriteOptional(s, frame.moves[1], MoveIntoStream), LAMBDA t1 :
    Then(WriteOptional(t1, frame.moves[2], MoveIntoStream), LAMBDA t2 :
        WriteBitsU16(t2, frame.delta, 10)))

\* `inner` without its `?`: an Err of the inner call is taken as a Frame
\* without moves
ErrOn_Ignored(s, inner) ==
    IF inner.ok THEN inner ELSE Ok(s, [moves |-> <<None, None>>, delta |-> 0])

\* `inner?` for the result of a call on an inner stream: its Err leaves the
\* outer stream s as it is
ErrOn(s, inner) == IF inner.ok THEN inner ELSE Err(s)

\* Frame::has_move
HasMove(frame) == frame.moves[1] # None \/ frame.moves[2] # None

\* the `for _ in 0..length` loop without `if bs.eof() { return Ok(..) }`
RECURSIVE ReadBlob_NoEofCheck(_, _, _)
ReadBlob_NoEofCheck(s, length, data) ==
    IF Len(data) = length THEN [ok |-> TRUE, eof |-> FALSE, bs |-> s, val |-> data]
    ELSE Bind(ReadU8(s), LAMBDA r :
             ReadBlob_NoEofCheck(r.bs, length, Append(data, r.val)))

\* the `for _ in 0..length` loop of Recording::from_stream: the bytes of one
\* frame; `eof` is set when the outer stream ended inside them
RECURSIVE ReadBlob(_, _, _)
ReadBlob(s, length, data) ==
    IF Len(data) = length THEN [ok |-> TRUE, eof |-> FALSE, bs |-> s, val |-> data]
    ELSE IF Eof(s) THEN [ok |-> TRUE, eof |-> TRUE, bs |-> s, val |-> data]
    ELSE Bind(ReadU8(s), LAMBDA r : ReadBlob(r.bs, length, Append(data, r.val)))

\* the `while !bs.eof()` loop without `if length == 0 { break; }`
RECURSIVE ReadFrames_NoTerminator(_, _, _)
ReadFrames_NoTerminator(s, mission, frames) ==
    IF Eof(s) THEN Ok(s, [mission |-> mission, frames |-> frames])
    ELSE Bind(ReadU8(s), LAMBDA length :
        Bind(ReadBlob(length.bs, length.val, <<>>), LAMBDA data :
            IF data.eof THEN Ok(data.bs, [mission |-> mission, frames |-> frames])
            ELSE Bind(ErrOn(data.bs, FrameFromStream(NewBitStream(data.val))),
                      LAMBDA frame :
                ReadFrames_NoTerminator(data.bs, mission, Append(frames, frame.val)))))

\* the `while !bs.eof()` loop of Recording::from_stream
RECURSIVE ReadFrames(_, _, _)
ReadFrames(s, mission, frames) ==
    IF Eof(s) THEN Ok(s, [mission |-> mission, frames |-> frames])
    ELSE Bind(ReadU8(s), LAMBDA length :
        IF length.val = 0
        THEN Ok(length.bs, [mission |-> mission, frames |-> frames])
        ELSE Bind(ReadBlob(length.bs, length.val, <<>>), LAMBDA data :
            IF data.eof THEN Ok(data.bs, [mission |-> mission, frames |-> frames])
            ELSE Bind(ErrOn(data.bs, FrameFromStream(NewBitStream(data.val))),
                      LAMBDA frame :
                ReadFrames(data.bs, mission, Append(frames, frame.val)))))

\* Recording::from_stream
RecordingFromStream(s) ==
    Bind(ReadString(s), LAMBDA mission : ReadFrames(mission.bs, mission.val, <<>>))

\* one frame written without the floor of 4 bytes
WriteFrameBytes_NoFloor(s, bytes) ==
    Then(WriteU8(s, Len(bytes) % 256), LAMBDA t1 : WriteBytes(t1, bytes, 1))

\* one frame written with the length of its bytes before the padding
WriteFrameBytes_LengthUnpadded(s, bytes) ==
    Then(WriteU8(s, Len(bytes) % 256), LAMBDA t1 :
    Then(WriteBytes(t1, bytes, 1), LAMBDA t2 :
        WriteBytes(t2, [k \in 1..(Max(Len(bytes), 4) - Len(bytes)) |-> 0], 1)))

\* one frame of the `for frame in self.frames` loop of Recording::into_stream,
\* after `frame.into_stream(&mut inner_stream)?` has left `bytes`
WriteFrameBytes(s, bytes) ==
    Then(WriteU8(s, Max(Len(bytes), 4) % 256), LAMBDA t1 :
    Then(WriteBytes(t1, bytes, 1), LAMBDA t2 :
        WriteBytes(t2, [k \in 1..(Max(Len(bytes), 4) - Len(bytes)) |-> 0], 1)))

\* the `for frame in self.frames` loop of Recording::into_stream, from frame i on
RECURSIVE WriteFrames(_, _, _)
WriteFrames(s, frames, i) ==
    IF i > Len(frames) THEN Ok(s, 0)
    ELSE Bind(ErrOn(s, FrameIntoStream(NewBitStream(<<>>), frames[i])), LAMBDA inner :
             Then(WriteFrameBytes(s, inner.bs.data), LAMBDA t :
                 WriteFrames(t, frames, i + 1)))

\* Recording::into_stream with a zero length byte written after the frames
RecordingIntoStream_Terminated(s, rec) ==
    Then(WriteString(s, rec.mission), LAMBDA t :
        Then(WriteFrames(t, rec.frames, 1), LAMBDA u : WriteU8(u, 0)))

\* Recording::into_stream
RecordingIntoStream(s, rec) ==
    Then(WriteString(s, rec.mission), LAMBDA t : WriteFrames(t, rec.frames, 1))

(***************************************************************************)
(* Driver of the bit codec: write `off` bits into an empty stream, write   *)
(* the value with the n-bit write of the chosen type, seek back to where   *)
(* the value starts, read n bits with the read of the same type.           *)
(***************************************************************************)
\* the integer types of the write_bits_* / read_bits_* family
IntTypes == {8, 16, 32, 64}

\* bit patterns the values are cut from, as four limbs
BitPatterns ==
    { <<0, 0, 0, 0>>, <<1, 0, 0, 0>>, <<65535, 65535, 65535, 65535>>,
      <<42435, 23100, 50085, 15450>>, <<0, 256, 0, 0>>, <<0, 65280, 0, 0>>,
      <<0, 0, 0, 32768>>, <<21845, 43690, 21845, 43690>> }

\* the low `bits` bits of a four-limb pattern
MaskLimbs(p, bits) == [i \in 1..4 |-> p[i] % Pow2(LimbBits(bits, i))]

\* a four-limb value as a value of integer type ty
AsType(v, ty) ==
    CASE ty = 8  -> v[1] % 256
      [] ty = 16 -> v[1]
      [] ty = 32 -> <<v[1], v[2]>>
      [] ty = 64 -> v

WriteBits(s, ty, value, bits) ==
    CASE ty = 8  -> WriteBitsU8(s, value, bits)
      [] ty = 16 -> WriteBitsU16(s, value, bits)
      [] ty = 32 -> WriteBitsU32(s, value, bits)
      [] ty = 64 -> WriteBitsU64(s, value, bits)

ReadBits(s, ty, bits) ==
    CASE ty = 8  -> ReadBitsU8(s, bits)
      [] ty = 16 -> ReadBitsU16(s, bits)
      [] ty = 32 -> ReadBitsU32(s, bits)
      [] ty = 64 -> ReadBitsU64(s, bits)

\* a type, a width of 1..ty bits, an offset, what the bits in front are, and a
\* value: a pattern cut to the width (it fits) or to the type (it may not)
InitBits ==
    /\ pc = "start"
    /\ bs = NewBitStream(<<>>)
    /\ wire = <<>>
    /\ ret = Err(bs)
    /\ \E ty \in IntTypes, off \in 0..7, pre \in {0, 1}, p \in BitPatterns :
         \E n \in 1..ty :
           \E m \in {n, ty} :
              arg = [ty |-> ty, bits |-> n, off |-> off, pre |-> pre,
                     limbs |-> MaskLimbs(p, m)]

\* the `off` bits in front of the value: all zero (pre = 0) or all one
BitPrefix ==
    /\ pc = "start"
    /\ ret' = IF arg.off = 0 THEN Ok(bs, 0)
              ELSE WriteBitsU8(bs, arg.pre * (Pow2(arg.off) - 1), arg.off)
    /\ bs' = ret'.bs
    /\ pc' = "prefixed"
    /\ UNCHANGED <<arg, wire>>

BitWrite ==
    /\ pc = "prefixed"
    /\ ret' = WriteBits(bs, arg.ty, AsType(arg.limbs, arg.ty), arg.bits)
    /\ bs' = ret'.bs
    /\ pc' = IF ret'.ok THEN "written" ELSE "write_err"
    /\ UNCHANGED <<arg, wire>>

BitSeek ==
    /\ pc = "written"
    /\ bs' = Seek(bs, 0, arg.off)
    /\ pc' = "sought"
    /\ UNCHANGED <<arg, ret, wire>>

BitRead ==
    /\ pc = "sought"
    /\ ret' = ReadBits(bs, arg.ty, arg.bits)
    /\ bs' = ret'.bs
    /\ pc' = "read"
    /\ UNCHANGED <<arg, wire>>

NextBits == BitPrefix \/ BitWrite \/ BitSeek \/ BitRead

SpecBits == InitBits /\ [][NextBits]_vars

(***************************************************************************)
(* Driver of the writes: an empty stream and one write after the other.    *)
(***************************************************************************)
\* the most writes in a row
MaxWrites == 3

\* the writes of a step: every width of write_bits_u8 with two patterns, one
\* width over a byte for each wider type, and a value that does not fit
WriteSamples ==
    {[ty |-> 8, bits |-> n, limbs |-> MaskLimbs(p, n)] :
        n \in 1..8, p \in {<<65535, 65535, 65535, 65535>>, <<21845, 43690, 21845, 43690>>}}
    \cup {[ty |-> 16, bits |-> n, limbs |-> MaskLimbs(<<42435, 23100, 50085, 15450>>, n)] :
            n \in {11, 16}}
    \cup {[ty |-> 32, bits |-> 17, limbs |-> MaskLimbs(<<65535, 65535, 65535, 65535>>, 17)],
          [ty |-> 64, bits |-> 33, limbs |-> MaskLimbs(<<21845, 43690, 21845, 43690>>, 33)],
          [ty |-> 8, bits |-> 3, limbs |-> <<255, 0, 0, 0>>]}

\* BitStream::new(vec![]); arg counts the writes and the bits they wrote
InitWrites ==
    /\ pc = "start"
    /\ bs = NewBitStream(<<>>)
    /\ wire = <<>>
    /\ ret = Ok(bs, 0)
    /\ arg = [count |-> 0, total |-> 0]

\* one write_bits_u8 / u16 / u32 / u64
WriteStep ==
    /\ arg.count < MaxWrites
    /\ \E w \in WriteSamples :
         /\ ret' = WriteBits(bs, w.ty, AsType(w.limbs, w.ty), w.bits)
         /\ bs' = ret'.bs
         /\ arg' = [count |-> arg.count + 1,
                    total |-> arg.total + (IF ret'.ok THEN w.bits ELSE 0)]
    /\ pc' = IF ret'.ok THEN "wrote" ELSE "refused"
    /\ UNCHANGED wire

NextWrites == WriteStep

SpecWrites == InitWrites /\ [][NextWrites]_vars

(***************************************************************************)
(* Driver of the recording codec: encode a Recording into an empty stream  *)
(* (export_opt in lib.rs), hand the bytes over, complete or cut short      *)
(* inside the last frame, and decode them from a fresh stream (import_opt  *)
(* in lib.rs, main in main.rs).                                            *)
(***************************************************************************)
\* most frames in a Recording of the model
MaxFrames == 2

\* the angle Move::read_angle yields for the 16-bit code k
AngleOfRaw(k) ==
    IF k >= 32768 THEN FSub(FMul(FInt(k), AngleScale), TwoPI)
    ELSE FMul(FInt(k), AngleScale)

\* the translation read_scaled_f64_bits yields for the 6-bit code k
TransOfRaw(k) == FAdd(FMul(FInt(k), TransScale), TransOffset)

AllFalse == <<FALSE, FALSE, FALSE, FALSE, FALSE, FALSE>>

MoveMin ==
    [yaw |-> None, pitch |-> None, roll |-> None,
     mx |-> TransOfRaw(0), my |-> TransOfRaw(0), mz |-> TransOfRaw(0),
     freelook |-> FALSE, triggers |-> AllFalse]

MoveFull ==
    [yaw |-> Some(AngleOfRaw(1)), pitch |-> Some(AngleOfRaw(32768)),
     roll |-> Some(AngleOfRaw(65535)),
     mx |-> TransOfRaw(63), my |-> TransOfRaw(16), mz |-> TransOfRaw(8),
     freelook |-> TRUE, triggers |-> <<TRUE, FALSE, TRUE, FALSE, FALSE, TRUE>>]

MoveYaw11 ==
    [yaw |-> Some(AngleOfRaw(11)), pitch |-> None, roll |-> Some(AngleOfRaw(40000)),
     mx |-> TransOfRaw(17), my |-> TransOfRaw(0), mz |-> TransOfRaw(63),
     freelook |-> TRUE, triggers |-> <<FALSE, TRUE, FALSE, TRUE, TRUE, FALSE>>]

\* mx = 3.0 is outside what six bits hold
MoveFar ==
    [yaw |-> Some(PI), pitch |-> None, roll |-> None,
     mx |-> FInt(3), my |-> TransOfRaw(16), mz |-> TransOfRaw(16),
     freelook |-> FALSE, triggers |-> AllFalse]

NoMoveFrame(delta) == [moves |-> <<None, None>>, delta |-> delta]

\* Frames whose delta is in 0..1023 and whose Move fields are on the grid
GridFrames ==
    { NoMoveFrame(0), NoMoveFrame(16), NoMoveFrame(1023),
      [moves |-> <<Some(MoveMin), None>>, delta |-> 33],
      [moves |-> <<Some(MoveFull), Some(MoveMin)>>, delta |-> 1023],
      [moves |-> <<None, Some(MoveYaw11)>>, delta |-> 16] }

FrameSamples ==
    GridFrames \cup { NoMoveFrame(1024), [moves |-> <<Some(MoveFar), None>>, delta |-> 1],
                      [moves |-> <<Some(MoveMin), None>>, delta |-> 65535] }

\* "Test Mission"
TestMission == <<84, 101, 115, 116, 32, 77, 105, 115, 115, 105, 111, 110>>

MissionSamples == {TestMission, <<>>}

\* the sequences over S of length at most n
RECURSIVE SeqsUpTo(_, _)
SeqsUpTo(S, n) ==
    IF n = 0 THEN {<<>>}
    ELSE SeqsUpTo(S, n - 1) \cup {Append(q, x) : q \in SeqsUpTo(S, n - 1), x \in S}

\* where the length byte of the last frame is in the encoded recording w (the
\* number of bytes in front of it), walking the frames as from_stream does
RECURSIVE LastFrameFrom(_, _)
LastFrameFrom(w, pos) ==
    IF pos + 1 + w[pos + 1] >= Len(w) THEN pos
    ELSE LastFrameFrom(w, pos + 1 + w[pos + 1])

LastFrameStart(w) == LastFrameFrom(w, 1 + w[1])

\* the frame blobs of the encoded recording w, from the length byte at pos on
RECURSIVE BlobsFrom(_, _)
BlobsFrom(w, pos) ==
    IF pos >= Len(w) THEN <<>>
    ELSE <<SubSeq(w, pos + 2, pos + 1 + w[pos + 1])>> \o BlobsFrom(w, pos + 1 + w[pos + 1])

Blobs(w) == BlobsFrom(w, 1 + w[1])

\* the bytes Frame::into_stream leaves in a new stream
Packed(frame) == FrameIntoStream(NewBitStream(<<>>), frame).bs.data

InitRec ==
    /\ pc = "start"
    /\ bs = NewBitStream(<<>>)
    /\ wire = <<>>
    /\ ret = Err(bs)
    /\ \E mission \in MissionSamples, frames \in SeqsUpTo(FrameSamples, MaxFrames) :
          arg = [rec |-> [mission |-> mission, frames |-> frames]]

\* export: Recording::into_stream on a new stream, then BitStream::bytes
RecEncode ==
    /\ pc = "start"
    /\ ret' = RecordingIntoStream(bs, arg.rec)
    /\ bs' = ret'.bs
    /\ wire' = IF ret'.ok THEN bs'.data ELSE <<>>
    /\ pc' = IF ret'.ok THEN "encoded" ELSE "encode_err"
    /\ UNCHANGED arg

\* the capture stopped while the last frame was written: the bytes end at its
\* length byte, or somewhere inside its blob
RecTruncate ==
    /\ pc = "encoded"
    /\ arg.rec.frames # <<>>
    /\ \E cut \in LastFrameStart(wire)..(Len(wire) - 1) : wire' = SubSeq(wire, 1, cut)
    /\ pc' = "truncated"
    /\ UNCHANGED <<bs, arg, ret>>

\* import: Recording::from_stream on a stream over the bytes handed over
RecDecode ==
    /\ pc \in {"encoded", "truncated"}
    /\ ret' = RecordingFromStream(NewBitStream(wire))
    /\ pc' = IF pc = "encoded" THEN "decoded" ELSE "decoded_cut"
    /\ UNCHANGED <<bs, arg, wire>>

NextRec == RecEncode \/ RecTruncate \/ RecDecode

SpecRec == InitRec /\ [][NextRec]_vars

(***************************************************************************)
(* Driver of read_bits_u8: a stream over a buffer, its cursor put anywhere *)
(* by seek, one read of n bits.                                            *)
(***************************************************************************)
\* the most bytes of a sample buffer
MaxBuffer == 3

\* the bytes the sample buffers are made of
BufferBytes == {0, 255, 165}

InitRead ==
    /\ pc = "start"
    /\ bs = NewBitStream(<<>>)
    /\ wire = <<>>
    /\ ret = Err(bs)
    /\ \E data \in SeqsUpTo(BufferBytes, MaxBuffer), b \in 0..(MaxBuffer + 1),
          o \in 0..7, n \in 0..9 :
         arg = [data |-> data, b |-> b, o |-> o, n |-> n]

\* BitStream::new(data) and seek(b, o)
ReadSeek ==
    /\ pc = "start"
    /\ bs' = Seek(NewBitStream(arg.data), arg.b, arg.o)
    /\ wire' = arg.data
    /\ pc' = "cursor"
    /\ UNCHANGED <<arg, ret>>

\* read_bits_u8(n); with n = 0 this is what a build without overflow checks
\* does, where `0xFF >> (8 - bits)` is 0xFF
ReadCall ==
    /\ pc = "cursor"
    /\ ret' = ReadBitsU8(bs, arg.n)
    /\ bs' = ret'.bs
    /\ pc' = IF ret'.ok THEN "read_ok" ELSE "read_err"
    /\ UNCHANGED <<arg, wire>>

\* read_bits_u8(0) in a build with overflow checks: past the two checks,
\* `0xFF >> (8 - bits)` panics
ReadPanic ==
    /\ pc = "cursor"
    /\ arg.n = 0
    /\ bs.byte_offset < Len(bs.data)
    /\ pc' = "read_panic"
    /\ UNCHANGED <<bs, arg, ret, wire>>

NextRead == ReadSeek \/ ReadCall \/ ReadPanic

SpecRead == InitRead /\ [][NextRead]_vars

(***************************************************************************)
(* Driver of Recording::from_stream on files written by hand: a mission,   *)
(* frame blobs that are long enough or not, and an end of the file.        *)
(***************************************************************************)
\* the most blobs of a sample file
MaxBlobs == 2

\* blobs that hold a whole Frame: no move and delta 16, in 4 and in 2 bytes;
\* no move and delta 1023 with the padding bits set; a Move in slot 0
GoodBlobs == {<<64, 0, 0, 0>>, <<64, 0>>, <<252, 255, 0, 0>>, <<1, 0, 0, 0, 0>>}

\* blobs that end before their Frame does: slot 0 present in 4 bytes, a
\* single byte, both slots present in 5 bytes
ShortBlobs == {<<1, 0, 0, 0>>, <<0>>, <<3, 0, 0, 0, 0>>}

\* bytes after a zero length byte: none, a length without its blob, a blob
\* that is too short, a second zero
JunkSamples == {<<>>, <<200>>, <<1, 1>>, <<0>>}

\* the ends of a file: after the last blob; a zero length byte and bytes after
\* it; a length byte of 5 with two bytes behind it
FileEnds ==
    {[kind |-> "end", bytes |-> <<>>], [kind |-> "cut", bytes |-> <<5, 1, 0>>]}
    \cup {[kind |-> "zero", bytes |-> <<0>> \o junk] : junk \in JunkSamples}

\* the blobs from k on, each behind its length byte
RECURSIVE BlobBytes(_, _)
BlobBytes(blobs, k) ==
    IF k > Len(blobs) THEN <<>>
    ELSE <<Len(blobs[k])>> \o blobs[k] \o BlobBytes(blobs, k + 1)

\* the bytes of a file: the mission "A", the blobs, the end
FileBytes(a) == <<1, 65>> \o BlobBytes(a.blobs, 1) \o a.end.bytes

InitBlob ==
    /\ pc = "start"
    /\ bs = NewBitStream(<<>>)
    /\ wire = <<>>
    /\ ret = Err(bs)
    /\ \E blobs \in SeqsUpTo(GoodBlobs \cup ShortBlobs, MaxBlobs), end \in FileEnds :
         arg = [blobs |-> blobs, end |-> end]

\* import_opt(conts): BitStream::new(conts)
BlobLoad ==
    /\ pc = "start"
    /\ wire' = FileBytes(arg)
    /\ bs' = NewBitStream(wire')
    /\ pc' = "file"
    /\ UNCHANGED <<arg, ret>>

\* Recording::from_stream(&mut bs)
BlobDecode ==
    /\ pc = "file"
    /\ ret' = RecordingFromStream(bs)
    /\ bs' = ret'.bs
    /\ pc' = IF ret'.ok THEN "file_ok" ELSE "file_err"
    /\ UNCHANGED <<arg, wire>>

NextBlob == BlobLoad \/ BlobDecode

SpecBlob == InitBlob /\ [][NextBlob]_vars

(***************************************************************************)
(* Driver of the Move codec: an angle written by Move::write_angle into an *)
(* empty stream and read back by Move::read_angle from its bytes, and      *)
(* Move::from_stream on the bytes of a stream.                             *)
(***************************************************************************)
\* 2^n as f64
FPow2(n) == [neg |-> FALSE, m |-> <<0, 0, 0, 128>>, e |-> n - 52]

\* |a|
FAbs(a) == [a EXCEPT !.neg = FALSE]

\* the 16-bit codes the sample angles are taken around
AngleCodes == {0, 1, 2, 11, 16383, 16384, 32767, 32768, 32769, 40000, 65534, 65535}

\* what is added to the angle of a code: nothing, half a step, almost a whole
\* step, and a few units in the last place up and down
AngleShifts ==
    { FZero, FMul(AngleScale, FPow2(-1)), FSub(AngleScale, FPow2(-45)),
      FPow2(-40), FNeg(FPow2(-40)), FPow2(-51), FNeg(FPow2(-51)) }

\* the angles around the codes, and pi, zero and the negative angles next to zero
AngleSamples ==
    {FAdd(AngleOfRaw(k), d) : k \in AngleCodes, d \in AngleShifts}
        \cup { PI, FNeg(PI), FNeg(FPow2(-50)), FNeg(FPow2(-52)), FNeg(FPow2(-60)),
               FNeg(FAdd(FPow2(-51), FPow2(-103))) }

\* the bytes a sample stream is made of
ByteSamples == {0, 255, 85, 170}

\* four bytes of the samples and six bytes of one of them: enough for a Move
\* with its three angles
MoveBytes ==
    { <<b[1], b[2], b[3], b[4], b[5], b[5], b[5], b[5], b[5], b[5]>> :
        b \in [1..5 -> ByteSamples] }

InitMove ==
    /\ pc = "start"
    /\ bs = NewBitStream(<<>>)
    /\ wire = <<>>
    /\ ret = Err(bs)
    /\ \/ \E a \in AngleSamples : arg = [kind |-> "angle", angle |-> a]
       \/ \E b \in MoveBytes : arg = [kind |-> "move", bytes |-> b]

AngleWrite ==
    /\ pc = "start"
    /\ arg.kind = "angle"
    /\ ret' = WriteAngle(bs, arg.angle)
    /\ bs' = ret'.bs
    /\ wire' = IF ret'.ok THEN bs'.data ELSE <<>>
    /\ pc' = IF ret'.ok THEN "angle_written" ELSE "angle_err"
    /\ UNCHANGED arg

AngleRead ==
    /\ pc = "angle_written"
    /\ ret' = ReadAngle(NewBitStream(wire))
    /\ pc' = "angle_read"
    /\ UNCHANGED <<bs, arg, wire>>

MoveDecode ==
    /\ pc = "start"
    /\ arg.kind = "move"
    /\ wire' = arg.bytes
    /\ ret' = MoveFromStream(NewBitStream(arg.bytes))
    /\ pc' = "move_read"
    /\ UNCHANGED <<bs, arg>>

NextMove == AngleWrite \/ AngleRead \/ MoveDecode

SpecMove == InitMove /\ [][NextMove]_vars

(***************************************************************************)
(* Driver of write_scaled_f64_bits: one value, in and out of the range of  *)
(* its bits, written on an empty stream with the scale and offset of a     *)
(* translation.                                                            *)
(***************************************************************************)
\* the sample values are j / 32 for j from -MaxScaled to MaxScaled: the raw
\* quantity (value + 1) * 16 runs from -84 to 116 in halves
MaxScaled == 200

\* the widths written: a translation has 6 bits
ScaledBits == {4, 6}

InitScaled ==
    /\ pc = "start"
    /\ bs = NewBitStream(<<>>)
    /\ wire = <<>>
    /\ ret = Err(bs)
    /\ \E j \in (0 - MaxScaled)..MaxScaled, bits \in ScaledBits :
         arg = [j |-> j, value |-> FDiv(FInt(j), FInt(32)), bits |-> bits]

\* bs.write_scaled_f64_bits(value, bits, 1f64 / 16f64, -1.0f64)
ScaledWrite ==
    /\ pc = "start"
    /\ ret' = WriteScaledF64Bits(bs, arg.value, arg.bits, TransScale, TransOffset)
    /\ bs' = ret'.bs
    /\ wire' = bs'.data
    /\ pc' = IF ret'.ok THEN "scaled_written" ELSE "scaled_err"
    /\ UNCHANGED arg

\* bs.read_scaled_f64_bits(bits, 1f64 / 16f64, -1.0f64) on the bytes written
ScaledRead ==
    /\ pc = "scaled_written"
    /\ ret' = ReadScaledF64Bits(NewBitStream(wire), arg.bits, TransScale, TransOffset)
    /\ pc' = "scaled_read"
    /\ UNCHANGED <<bs, arg, wire>>

NextScaled == ScaledWrite \/ ScaledRead

SpecScaled == InitScaled /\ [][NextScaled]_vars

(***************************************************************************)
(* tas_rec.rs.  A text is the sequence of its characters, each a string of *)
(* one character.  A name (mission, sequence) is a text too.               *)
(***************************************************************************)
\* the digits in order: {} of a digit d is DigitChars[d + 1]
DigitChars == <<"0", "1", "2", "3", "4", "5", "6", "7", "8", "9">>

Digits == {"0", "1", "2", "3", "4", "5", "6", "7", "8", "9"}

DigitVal(c) == CHOOSE d \in 0..9 : DigitChars[d + 1] = c

\* the characters of `sp`
WhiteSpace == {" ", "\t", "\r", "\n"}

\* n blanks of a format string
Spaces(n) == [k \in 1..n |-> " "]

\* the words of the format strings and of the tags
W_frames == <<"f", "r", "a", "m", "e", "s">>
W_frame == <<"f", "r", "a", "m", "e">>
W_moveframe == <<"m", "o", "v", "e", "f", "r", "a", "m", "e">>
W_ms == <<"m", "s">>
W_camera == <<"c", "a", "m", "e", "r", "a">>
W_move == <<"m", "o", "v", "e">>
W_triggers == <<"t", "r", "i", "g", "g", "e", "r", "s">>

\* `{}` of an unsigned integer (u16, u32, usize)
RECURSIVE FmtNat(_)
FmtNat(n) ==
    IF n < 10 THEN <<DigitChars[n + 1]>>
    ELSE Append(FmtNat(n \div 10), DigitChars[(n % 10) + 1])

\* the fraction f / 10000, 0 < f < 10000, without its trailing zeros
RECURSIVE FmtFraction(_)
FmtFraction(ds) ==
    IF ds[Len(ds)] = "0" THEN FmtFraction(SubSeq(ds, 1, Len(ds) - 1)) ELSE ds

\* the decimal expansion of n / 10000
FmtTenThousandths(n) ==
    FmtNat(n \div 10000) \o
        (IF n % 10000 = 0 THEN <<>>
         ELSE <<".">> \o
              FmtFraction(<<DigitChars[((n \div 1000) % 10) + 1],
                            DigitChars[((n \div 100) % 10) + 1],
                            DigitChars[((n \div 10) % 10) + 1],
                            DigitChars[(n % 10) + 1]>>))

\* a u64 below 2^31 as a number
U64ToNat(v) == v[1] + 65536 * v[2]

\* `{}` of an f64 with its sign left out
FmtF64_Unsigned(v) ==
    FmtTenThousandths(U64ToNat(FToU64(FMul([v EXCEPT !.neg = FALSE], FInt(10000)))))

\* `{}` of an f64 that is a multiple of 1/16 and below 2^17 in size: the
\* shortest decimal that reads back as the same f64 is its decimal expansion
FmtF64(v) ==
    (IF v.neg THEN <<"-">> ELSE <<>>) \o
        FmtTenThousandths(U64ToNat(FToU64(FMul([v EXCEPT !.neg = FALSE], FInt(10000)))))

\* Option::unwrap_or
UnwrapOr(opt, default) == IF opt = None THEN default ELSE opt[1]

\* TasFile::escape without its quotes: `\` becomes `\\`, then `"` becomes `\"`
RECURSIVE EscapeFrom(_, _, _)
EscapeFrom(value, i, out) ==
    IF Len(out) < 0 \/ i > Len(value) THEN out
    ELSE EscapeFrom(value, i + 1,
                    IF value[i] \in {"\\", "\""} THEN out \o <<"\\", value[i]>>
                    ELSE Append(out, value[i]))

\* TasFile::escape
Escape(value) == <<"\"">> \o EscapeFrom(value, 1, <<>>) \o <<"\"">>

\* "({} {} {})\n" of three f64
PrintFloat3(a, b, c) ==
    <<"(">> \o FmtF64(a) \o <<" ">> \o FmtF64(b) \o <<" ">> \o FmtF64(c) \o <<")", "\n">>

\* `{}` of `trigger as u8`
FmtBool(b) == IF b THEN "1" ELSE "0"

\* the three lines print_move writes for a Move
PrintMoveLines(mv) ==
    Spaces(9) \o W_camera \o <<" ">> \o
        PrintFloat3(UnwrapOr(mv.yaw, FZero), UnwrapOr(mv.pitch, FZero),
                    UnwrapOr(mv.roll, FZero)) \o
    Spaces(9) \o W_move \o <<" ">> \o PrintFloat3(mv.mx, mv.my, mv.mz) \o
    Spaces(9) \o W_triggers \o
        <<" ", "(", FmtBool(mv.triggers[1]), " ", FmtBool(mv.triggers[2]), " ",
          FmtBool(mv.triggers[3]), " ", FmtBool(mv.triggers[4]), " ",
          FmtBool(mv.triggers[5]), " ", FmtBool(mv.triggers[6]), ")", "\n">>

\* TasFile::print_move
PrintMove(opt_mv) ==
    Spaces(6) \o <<"{", "\n">> \o
        (IF opt_mv = None THEN <<>> ELSE PrintMoveLines(opt_mv[1])) \o
    Spaces(6) \o <<"}", "\n">>

\* the `for j in i..seq.frames.len()` loop that ignores the delta
RECURSIVE Combined_AnyDelta(_, _, _, _)
Combined_AnyDelta(frames, i, j, combined) ==
    IF j > Len(frames) \/ HasMove(frames[j]) THEN combined
    ELSE Combined_AnyDelta(frames, i, j + 1, combined + 1)

\* the `for j in i..seq.frames.len()` loop of print_sequence: how many Frames
\* from i on have no move and the delta of Frame i
RECURSIVE Combined(_, _, _, _)
Combined(frames, i, j, combined) ==
    IF j > Len(frames) \/ HasMove(frames[j]) \/ frames[j].delta # frames[i].delta
    THEN combined
    ELSE Combined(frames, i, j + 1, combined + 1)

\* "      moveframe {} ms //{}\n" and the two moves
PrintMoveFrame(frame, elapsed) ==
    Spaces(6) \o W_moveframe \o <<" ">> \o FmtNat(frame.delta) \o <<" ">> \o W_ms \o
        <<" ", "/", "/">> \o FmtNat(elapsed) \o <<"\n">> \o
        PrintMove(frame.moves[1]) \o PrintMove(frame.moves[2])

\* "      frames {} {} ms // {} -> {}\n"
PrintFrames(combined, delta, elapsed) ==
    Spaces(6) \o W_frames \o <<" ">> \o FmtNat(combined) \o <<" ">> \o FmtNat(delta) \o
        <<" ">> \o W_ms \o <<" ", "/", "/", " ">> \o FmtNat(elapsed) \o
        <<" ", "-", ">", " ">> \o FmtNat(elapsed + delta * (combined - 1)) \o <<"\n">>

\* "      frame {} ms // {}\n"
PrintFrame(delta, elapsed) ==
    Spaces(6) \o W_frame \o <<" ">> \o FmtNat(delta) \o <<" ">> \o W_ms \o
        <<" ", "/", "/", " ">> \o FmtNat(elapsed) \o <<"\n">>

\* the `while i < seq.frames.len()` loop of print_sequence; st is the text
\* written and the time elapsed
RECURSIVE PrintLoop(_, _, _)

\* the else branch of the loop: Frame i has no move, `combined` Frames are
\* written by one statement
PrintNoMove(frames, i, st, combined) ==
    IF combined > 1
    THEN PrintLoop(frames, i + combined,
                   [out |-> st.out \o PrintFrames(combined, frames[i].delta, st.elapsed),
                    elapsed |-> st.elapsed + frames[i].delta * (combined - 1)])
    ELSE PrintLoop(frames, i + 1,
                   [st EXCEPT !.out = @ \o PrintFrame(frames[i].delta, st.elapsed)])

\* one turn of the loop, `*elapsed += u32::from(frame.delta)` done
PrintStep(frames, i, st) ==
    IF HasMove(frames[i])
    THEN PrintLoop(frames, i + 1,
                   [st EXCEPT !.out = @ \o PrintMoveFrame(frames[i], st.elapsed)])
    ELSE PrintNoMove(frames, i, st, Combined(frames, i, i, 0))

PrintLoop(frames, i, st) ==
    IF Len(st.out) < 0 \/ i > Len(frames) THEN st
    ELSE PrintStep(frames, i, [st EXCEPT !.elapsed = @ + frames[i].delta])

\* "   }\n" after the statements
PrintSequenceEnd(st) == [st EXCEPT !.out = @ \o Spaces(3) \o <<"}", "\n">>]

\* TasFile::print_sequence
PrintSequence(seq, st) ==
    PrintSequenceEnd(
        PrintLoop(seq.frames, 1,
                  [st EXCEPT !.out = @ \o Spaces(3) \o <<"{", "\n">> \o Spaces(6) \o
                                      Escape(seq.name) \o <<"\n">>]))

\* the `for seq in &self.sequences` loop of print
RECURSIVE PrintSequences(_, _, _)
PrintSequences(sequences, k, st) ==
    IF Len(st.out) < 0 \/ k > Len(sequences) THEN st
    ELSE PrintSequences(sequences, k + 1, PrintSequence(sequences[k], st))

\* TasFile::print
TasPrintText(tas) ==
    PrintSequences(tas.sequences, 1,
                   [out |-> <<"{", "\n">> \o Spaces(3) \o Escape(tas.mission) \o <<"\n">>,
                    elapsed |-> 0]).out \o <<"}", "\n">>

\* TasFile::into_rec: the frames of the sequences, one after the other
RECURSIVE FlattenFrom(_, _, _)
FlattenFrom(sequences, k, frames) ==
    IF Len(frames) < 0 \/ k > Len(sequences) THEN frames
    ELSE FlattenFrom(sequences, k + 1, frames \o sequences[k].frames)

IntoRec(tas) == [mission |-> tas.mission, frames |-> FlattenFrom(tas.sequences, 1, <<>>)]

\* TasFile::from_rec
FromRec(recording) ==
    [mission |-> recording.mission,
     sequences |-> << [name |-> <<"I", "m", "p", "o", "r", "t", "e", "d">>,
                       frames |-> recording.frames] >>]

(***************************************************************************)
(* TasFile::parse.  A parser is an operator of the text and the index of   *)
(* the first character left; its result is nom's IResult: Ok with the      *)
(* index after what it took and its value, Err::Error (an `alt`, `opt` or  *)
(* `many0` around it goes on), or Err::Failure (what `cut` makes of an     *)
(* Error: the parse is over).                                              *)
(***************************************************************************)
POk(pos, val) == [st |-> "Ok", pos |-> pos, val |-> val]

PErr(pos) == [st |-> "Error", pos |-> pos, val |-> <<>>]

PFail(pos) == [st |-> "Failure", pos |-> pos, val |-> <<>>]

\* one parser after another: F gets the Ok result of the first
PBind(r, F(_)) == IF r.st = "Ok" THEN F(r) ELSE r

\* nom::combinator::cut
Cut(r) == IF r.st = "Error" THEN PFail(r.pos) ELSE r

\* nom::combinator::opt of the parser that gave r at index i
Opt(r, i) ==
    IF r.st = "Error" THEN POk(i, None)
    ELSE IF r.st = "Ok" THEN POk(r.pos, Some(r.val))
    ELSE r

\* is the character at index i one of S
HasChar(txt, i, S) == i <= Len(txt) /\ txt[i] \in S

\* is the text from index i on the word t: nom's `tag`
HasTag(txt, i, t) == i + Len(t) - 1 <= Len(txt) /\ SubSeq(txt, i, i + Len(t) - 1) = t

\* the index after the characters of S from index i on
RECURSIVE SpanEnd(_, _, _)
SpanEnd(txt, i, S) == IF HasChar(txt, i, S) THEN SpanEnd(txt, i + 1, S) ELSE i

\* the index of the first character of S from index i on, or after the text
RECURSIVE SpanNot(_, _, _)
SpanNot(txt, i, S) ==
    IF i > Len(txt) \/ txt[i] \in S THEN i ELSE SpanNot(txt, i + 1, S)

\* the index where `//` begins on the line of index i, or the end of the line
RECURSIVE CommentStart(_, _)
CommentStart(txt, i) ==
    IF i > Len(txt) \/ txt[i] = "\n" THEN i
    ELSE IF txt[i] = "/" /\ HasChar(txt, i + 1, {"/"}) THEN i
    ELSE CommentStart(txt, i + 1)

\* `re.replace_all(input, "")` for the regex `//.*`: every line loses what is
\* from its first `//` on
RECURSIVE StripFrom(_, _, _)

\* the line ends at e, out holds what it keeps
StripRest(txt, e, out) ==
    IF e > Len(txt) THEN out ELSE StripFrom(txt, e + 1, Append(out, "\n"))

\* the line from i on has its `//` at c, or ends there
StripLine(txt, i, c, out) ==
    StripRest(txt, SpanNot(txt, c, {"\n"}), out \o SubSeq(txt, i, c - 1))

StripFrom(txt, i, out) ==
    IF Len(out) < 0 \/ i > Len(txt) THEN out
    ELSE StripLine(txt, i, CommentStart(txt, i), out)

StripComments(txt) == StripFrom(txt, 1, <<>>)

\* the index after `sp`, which takes the white space there is and never fails
SkipSp(txt, i) == SpanEnd(txt, i, WhiteSpace)

\* the number a text of digits stands for
RECURSIVE NatOf(_, _, _)
NatOf(ds, i, n) ==
    IF i > Len(ds) THEN n ELSE NatOf(ds, i + 1, 10 * n + DigitVal(ds[i]))

\* 10^k
RECURSIVE Pow10(_)
Pow10(k) == IF k = 0 THEN 1 ELSE 10 * Pow10(k - 1)

\* the f64 nearest to n * 10^x, for n and 10^|x| that an f64 holds
FDecimal(neg, n, x) ==
    IF n = 0 THEN FZero
    ELSE IF x >= 0 THEN [FInt(n * Pow10(x)) EXCEPT !.neg = neg]
    ELSE [FDiv(FInt(n), FInt(Pow10(0 - x))) EXCEPT !.neg = neg]

\* the exponent of a float: `e` or `E`, a sign, and digits that `cut` demands;
\* m is the mantissa from s to e with its point at d, all of it digits
DoubleExp(txt, i, s, d, e, es, ee) ==
    IF ee = es THEN PFail(es)
    ELSE POk(ee,
             FDecimal(s > i /\ txt[i] = "-",
                      NatOf(SubSeq(txt, s, d - 1) \o SubSeq(txt, d + 1, e - 1), 1, 0),
                      (IF txt[es - 1] = "-" THEN 0 - NatOf(SubSeq(txt, es, ee - 1), 1, 0)
                       ELSE NatOf(SubSeq(txt, es, ee - 1), 1, 0))
                          - (IF e > d THEN e - d - 1 ELSE 0)))

\* the float whose mantissa is from s to e with its point at d (d = e: none)
DoubleMantissa(txt, i, s, d, e) ==
    IF e = 0 THEN PErr(i)
    ELSE IF HasChar(txt, e, {"e", "E"})
    THEN DoubleExp(txt, i, s, d, e,
                   IF HasChar(txt, e + 1, {"+", "-"}) THEN e + 2 ELSE e + 1,
                   SpanEnd(txt, IF HasChar(txt, e + 1, {"+", "-"}) THEN e + 2 ELSE e + 1,
                           Digits))
    ELSE POk(e, FDecimal(s > i /\ txt[i] = "-",
                         NatOf(SubSeq(txt, s, d - 1) \o SubSeq(txt, d + 1, e - 1), 1, 0),
                         0 - (IF e > d THEN e - d - 1 ELSE 0)))

\* the digits before the point end at d
DoubleFraction(txt, i, s, d) ==
    DoubleMantissa(txt, i, s, d,
        IF d > s
        THEN (IF HasChar(txt, d, {"."}) THEN SpanEnd(txt, d + 1, Digits) ELSE d)
        ELSE IF HasChar(txt, s, {"."}) /\ HasChar(txt, s + 1, Digits)
        THEN SpanEnd(txt, s + 1, Digits)
        ELSE 0)

\* the digits begin at s, after the sign
DoubleDigits(txt, i, s) == DoubleFraction(txt, i, s, SpanEnd(txt, s, Digits))

\* nom::number::complete::double
Double(txt, i) ==
    DoubleDigits(txt, i, IF HasChar(txt, i, {"+", "-"}) THEN i + 1 ELSE i)

\* `f as u16`: truncated, 0 below zero, u16::MAX above it
AsU16(f) ==
    IF FGe(f, FInt(65535)) THEN 65535 ELSE FToU64(f)[1]

\* `n as usize` for an n below 2^31
AsUsize(f) == U64ToNat(FToU64(f))

\* the character ch closes what gave val
Close(txt, i, ch, val) == IF HasChar(txt, i, {ch}) THEN POk(i + 1, val) ELSE PErr(i)

\* nom's `escaped(is_not("\"\\"), '\\', one_of("\"n\\"))` on the text from s on,
\* its loop at index i
RECURSIVE Escaped(_, _, _)

\* is_not has taken the characters up to j
EscapedStep(txt, s, i, j) ==
    IF j > i THEN Escaped(txt, s, j)
    ELSE IF txt[i] = "\\"
    THEN (IF i >= Len(txt) THEN PErr(s)
          ELSE IF txt[i + 1] \in {"\"", "n", "\\"} THEN Escaped(txt, s, i + 2)
          ELSE PErr(i + 1))
    ELSE IF i = s THEN PErr(s)
    ELSE POk(i, SubSeq(txt, s, i - 1))

Escaped(txt, s, i) ==
    IF i > Len(txt) THEN POk(i, SubSeq(txt, s, Len(txt)))
    ELSE EscapedStep(txt, s, i, SpanNot(txt, i, {"\"", "\\"}))

\* parse_str
ParseStr(txt, i) == Escaped(txt, i, i)

\* string
String(txt, i) ==
    IF ~HasChar(txt, i, {"\""}) THEN PErr(i)
    ELSE Cut(PBind(ParseStr(txt, i + 1), LAMBDA r : Close(txt, r.pos, "\"", r.val)))

\* terminated(double, preceded(sp, tag("ms")))
DoubleMs(txt, i) ==
    PBind(Double(txt, i), LAMBDA d :
        IF HasTag(txt, SkipSp(txt, d.pos), W_ms)
        THEN POk(SkipSp(txt, d.pos) + 2, d.val)
        ELSE PErr(SkipSp(txt, d.pos)))

\* empty_frame
EmptyFrame(txt, i) ==
    PBind(DoubleMs(txt, SkipSp(txt, i)), LAMBDA ms :
        POk(ms.pos, <<NoMoveFrame(AsU16(ms.val))>>))

\* empty_frames
EmptyFrames(txt, i) ==
    PBind(Double(txt, SkipSp(txt, i)), LAMBDA n :
        PBind(Opt(DoubleMs(txt, SkipSp(txt, n.pos)), n.pos), LAMBDA ms :
            POk(ms.pos,
                [k \in 1..AsUsize(n.val) |->
                    NoMoveFrame(IF ms.val = None THEN 1 ELSE AsU16(ms.val[1]))])))

\* the three doubles of float3, acc the ones read
RECURSIVE Float3From(_, _, _)
Float3From(txt, i, acc) ==
    IF Len(acc) = 3 THEN Close(txt, SkipSp(txt, i), ")", acc)
    ELSE PBind(Double(txt, SkipSp(txt, i)), LAMBDA d :
             Float3From(txt, d.pos, Append(acc, d.val)))

\* float3
Float3(txt, i) ==
    IF ~HasChar(txt, i, {"("}) THEN PErr(i)
    ELSE Cut(Float3From(txt, SkipSp(txt, i + 1), <<>>))

\* is_a("01"), and whether its first character is 1
IsA01(txt, i) ==
    IF HasChar(txt, i, {"0", "1"}) THEN POk(SpanEnd(txt, i, {"0", "1"}), txt[i] = "1")
    ELSE PErr(i)

\* the six flags of bool6, acc the ones read
RECURSIVE Bool6From(_, _, _)
Bool6From(txt, i, acc) ==
    IF Len(acc) = 6 THEN Close(txt, SkipSp(txt, i), ")", acc)
    ELSE PBind(IsA01(txt, SkipSp(txt, i)), LAMBDA b :
             Bool6From(txt, b.pos, Append(acc, b.val)))

\* bool6
Bool6(txt, i) ==
    IF ~HasChar(txt, i, {"("}) THEN PErr(i)
    ELSE Cut(Bool6From(txt, SkipSp(txt, i + 1), <<>>))

\* preceded(tag(word), ws_wrap(P))
Keyed(txt, i, word, P(_, _)) ==
    IF ~HasTag(txt, i, word) THEN PErr(i)
    ELSE PBind(P(txt, SkipSp(txt, i + Len(word))), LAMBDA r :
             POk(SkipSp(txt, r.pos), r.val))

\* move_inner: the angles are Some, free-look is true
MoveInner(txt, i) ==
    PBind(Keyed(txt, SkipSp(txt, i), W_camera, Float3), LAMBDA c :
        PBind(Keyed(txt, c.pos, W_move, Float3), LAMBDA m :
            PBind(Keyed(txt, m.pos, W_triggers, Bool6), LAMBDA t :
                POk(SkipSp(txt, t.pos),
                    [yaw |-> Some(c.val[1]), pitch |-> Some(c.val[2]),
                     roll |-> Some(c.val[3]),
                     mx |-> m.val[1], my |-> m.val[2], mz |-> m.val[3],
                     freelook |-> TRUE, triggers |-> t.val]))))

\* ws_before(opt(move_inner)) for i after the white space
OptMoveInner(txt, i) == Opt(MoveInner(txt, i), i)

\* move_
Move_(txt, i) ==
    IF ~HasChar(txt, i, {"{"}) THEN PErr(i)
    ELSE Cut(PBind(OptMoveInner(txt, SkipSp(txt, i + 1)), LAMBDA r :
                 Close(txt, r.pos, "}", r.val)))

\* move_frame
MoveFrame(txt, i) ==
    PBind(DoubleMs(txt, SkipSp(txt, i)), LAMBDA ms :
        PBind(Move_(txt, SkipSp(txt, ms.pos)), LAMBDA mv0 :
            PBind(Move_(txt, SkipSp(txt, mv0.pos)), LAMBDA mv1 :
                POk(mv1.pos,
                    <<[moves |-> <<mv0.val, mv1.val>>, delta |-> AsU16(ms.val)]>>))))

\* frame with tag("frame") tried before tag("frames")
Frame_FrameFirst(txt, i) ==
    IF HasTag(txt, i, W_frame) THEN Cut(EmptyFrame(txt, i + 5))
    ELSE IF HasTag(txt, i, W_frames) THEN Cut(EmptyFrames(txt, i + 6))
    ELSE IF HasTag(txt, i, W_moveframe) THEN Cut(MoveFrame(txt, i + 9))
    ELSE PErr(i)

\* frame: `frames` is tried before `frame`, and `moveframe` last
Frame(txt, i) ==
    IF HasTag(txt, i, W_frames) THEN Cut(EmptyFrames(txt, i + 6))
    ELSE IF HasTag(txt, i, W_frame) THEN Cut(EmptyFrame(txt, i + 5))
    ELSE IF HasTag(txt, i, W_moveframe) THEN Cut(MoveFrame(txt, i + 9))
    ELSE PErr(i)

\* the loop of separated_list(sp, frame): the statements so far end at i and
\* gave the Frames of acc
RECURSIVE FrameList(_, _, _)

\* the statement after the separator gave r
FrameListNext(txt, i, acc, r) ==
    IF r.st = "Error" THEN POk(i, acc)
    ELSE IF r.st = "Failure" THEN r
    ELSE IF r.pos = i THEN PErr(i)
    ELSE FrameList(txt, r.pos, acc \o r.val)

FrameList(txt, i, acc) ==
    IF Len(acc) < 0 \/ SkipSp(txt, i) = i THEN PErr(i)
    ELSE FrameListNext(txt, i, acc, Frame(txt, SkipSp(txt, i)))

\* separated_list(sp, frame) with the first statement's result r
FrameListFirst(txt, i, r) ==
    IF r.st = "Error" THEN POk(i, <<>>)
    ELSE IF r.st = "Failure" THEN r
    ELSE IF r.pos = i THEN PErr(i)
    ELSE FrameList(txt, r.pos, r.val)

\* sequence
Sequence(txt, i) ==
    IF ~HasChar(txt, i, {"{"}) THEN PErr(i)
    ELSE Cut(PBind(String(txt, SkipSp(txt, i + 1)), LAMBDA name :
                 PBind(FrameListFirst(txt, SkipSp(txt, name.pos),
                                      Frame(txt, SkipSp(txt, name.pos))), LAMBDA fr :
                     Close(txt, SkipSp(txt, fr.pos), "}",
                           [name |-> name.val, frames |-> fr.val]))))

\* many0(ws_wrap(sequence)) at index i, acc the sequences so far
RECURSIVE Sequences(_, _, _)

\* the sequence after the white space gave r
SequencesNext(txt, i, acc, r) ==
    IF r.st = "Error" THEN POk(i, acc)
    ELSE IF r.st = "Failure" THEN r
    ELSE Sequences(txt, SkipSp(txt, r.pos), Append(acc, r.val))

Sequences(txt, i, acc) ==
    IF Len(acc) < 0 THEN PErr(i)
    ELSE SequencesNext(txt, i, acc, Sequence(txt, SkipSp(txt, i)))

\* tasfile
TasFileParser(txt) ==
    IF ~HasChar(txt, 1, {"{"}) THEN PErr(1)
    ELSE Cut(PBind(String(txt, SkipSp(txt, 2)), LAMBDA mission :
                 PBind(Sequences(txt, SkipSp(txt, mission.pos), <<>>), LAMBDA seqs :
                     Close(txt, seqs.pos, "}",
                           [mission |-> mission.val, sequences |-> seqs.val]))))

\* the match of TasFile::parse: what is left of the text is dropped
ParseResult(s, r) == IF r.st = "Ok" THEN Ok(s, r.val) ELSE Err(s)

\* TasFile::parse
TasParse(s, input) == ParseResult(s, TasFileParser(StripComments(input)))

(***************************************************************************)
(* Driver of the text form: a TasFile is printed by TasFile::print and the *)
(* text is parsed by TasFile::parse.                                       *)
(***************************************************************************)
\* the most Frames of a sample sequence that exercises the compaction
MaxRun == 4

\* a Move as the parser yields it: the three angles present, free-look set
TasMove ==
    [yaw |-> Some(FDiv(FInt(1), FInt(2))), pitch |-> Some(FDiv(FInt(-3), FInt(2))),
     roll |-> Some(FInt(3)),
     mx |-> TransOfRaw(0), my |-> TransOfRaw(31), mz |-> TransOfRaw(16),
     freelook |-> TRUE, triggers |-> <<TRUE, FALSE, TRUE, FALSE, FALSE, TRUE>>]

\* Frames with and without a move, of two deltas
RunFrames ==
    { NoMoveFrame(16), NoMoveFrame(33), [moves |-> <<Some(TasMove), None>>, delta |-> 16] }

\* Frames as Recording::from_stream yields them too: an angle absent, free-look
\* not set, the second slot present
MoveFrames ==
    { [moves |-> <<Some([TasMove EXCEPT !.yaw = None]), None>>, delta |-> 5],
      [moves |-> <<None, Some([TasMove EXCEPT !.freelook = FALSE])>>, delta |-> 1000],
      [moves |-> <<Some(TasMove), Some(TasMove)>>, delta |-> 65535] }

\* "Tas", "a//b", "S1", "S2"
MissionName == <<"T", "a", "s">>
SlashName == <<"a", "/", "/", "b">>
FirstName == <<"S", "1">>
SecondName == <<"S", "2">>

\* names with a quote and with backslashes: `a"b`, `c\d`, `\`
QuoteName == <<"a", "\"", "b">>
BackslashName == <<"c", "\\", "d">>
OneBackslash == <<"\\">>

\* five no-move Frames of delta 33
FiveFrames == [k \in 1..5 |-> NoMoveFrame(33)]

TasSamples ==
    { [mission |-> MissionName, sequences |-> <<[name |-> FirstName, frames |-> fs]>>] :
        fs \in SeqsUpTo(RunFrames, MaxRun) \cup {FiveFrames} }
    \cup
    { [mission |-> MissionName,
       sequences |-> <<[name |-> FirstName, frames |-> a],
                       [name |-> SecondName, frames |-> b]>>] :
        a \in SeqsUpTo(RunFrames \cup MoveFrames, 1),
        b \in SeqsUpTo(RunFrames \cup MoveFrames, 1) }
    \cup
    { [mission |-> QuoteName,
       sequences |-> <<[name |-> BackslashName, frames |-> <<NoMoveFrame(16)>>]>>],
      [mission |-> BackslashName,
       sequences |-> <<[name |-> FirstName, frames |-> <<>>],
                       [name |-> QuoteName, frames |-> <<NoMoveFrame(33)>>]>>],
      [mission |-> OneBackslash, sequences |-> <<>>],
      [mission |-> SlashName, sequences |-> <<>>],
      [mission |-> MissionName, sequences |-> <<>>],
      [mission |-> MissionName,
       sequences |-> <<[name |-> SlashName, frames |-> <<NoMoveFrame(16)>>]>>] }

InitTas ==
    /\ pc = "start"
    /\ bs = NewBitStream(<<>>)
    /\ wire = <<>>
    /\ ret = Err(bs)
    /\ \E tas \in TasSamples : arg = [tas |-> tas]

\* tf.print(&mut out)
TasPrint ==
    /\ pc = "start"
    /\ wire' = TasPrintText(arg.tas)
    /\ pc' = "printed"
    /\ UNCHANGED <<bs, arg, ret>>

\* TasFile::parse(input)
TasRead ==
    /\ pc = "printed"
    /\ ret' = TasParse(bs, wire)
    /\ pc' = IF ret'.ok THEN "parsed" ELSE "parse_err"
    /\ UNCHANGED <<bs, arg, wire>>

NextTas == TasPrint \/ TasRead

SpecTas == InitTas /\ [][NextTas]_vars

(***************************************************************************)
(* Driver of TasFile::parse on texts written by hand: a mission, one       *)
(* sequence with a statement, closing braces, and what follows them.       *)
(***************************************************************************)
\* words joined by one blank
RECURSIVE JoinWords(_, _, _)
JoinWords(words, k, out) ==
    IF Len(out) < 0 \/ k > Len(words) THEN out
    ELSE JoinWords(words, k + 1, (IF k = 1 THEN out ELSE Append(out, " ")) \o words[k])

\* an empty move block
W_braces == <<"{", "}">>

\* a keyword that `frame` does not know
W_jump == <<"j", "u", "m", "p">>

\* statements of the grammar: their text is StmtText
GoodStmts ==
    {[kind |-> "none", n |-> 0, m |-> 0]}
    \cup {[kind |-> "frame", n |-> n, m |-> 0] : n \in {0, 7, 1023, 1024}}
    \cup {[kind |-> "frames", n |-> n, m |-> 0] : n \in {0, 1, 3}}
    \cup {[kind |-> "frames_ms", n |-> 2, m |-> 5], [kind |-> "frames_ms", n |-> 3, m |-> 0]}
    \cup {[kind |-> "moveframe", n |-> 4, m |-> 0]}
    \cup {[kind |-> "frame_frames", n |-> 7, m |-> 2]}

\* statements that break the grammar: no `ms`, no number, a keyword not
\* known (alone and after a statement), one move block only, `ms` not closed
BadStmts ==
    {[kind |-> k, n |-> 7, m |-> 0] :
        k \in {"frame_no_ms", "frame_no_num", "frames_no_num", "jump", "frame_jump",
               "moveframe_one", "frames_no_ms"}}

\* the words of a statement
StmtWords(st) ==
    CASE st.kind = "none" -> <<>>
      [] st.kind = "frame" -> <<W_frame, FmtNat(st.n), W_ms>>
      [] st.kind = "frames" -> <<W_frames, FmtNat(st.n)>>
      [] st.kind = "frames_ms" -> <<W_frames, FmtNat(st.n), FmtNat(st.m), W_ms>>
      [] st.kind = "moveframe" -> <<W_moveframe, FmtNat(st.n), W_ms, W_braces, W_braces>>
      [] st.kind = "frame_frames" -> <<W_frame, FmtNat(st.n), W_ms, W_frames, FmtNat(st.m)>>
      [] st.kind = "frame_no_ms" -> <<W_frame, FmtNat(st.n)>>
      [] st.kind = "frame_no_num" -> <<W_frame, W_ms>>
      [] st.kind = "frames_no_num" -> <<W_frames>>
      [] st.kind = "jump" -> <<W_jump, FmtNat(st.n), W_ms>>
      [] st.kind = "frame_jump" -> <<W_frame, FmtNat(st.n), W_ms, W_jump>>
      [] st.kind = "moveframe_one" -> <<W_moveframe, FmtNat(st.n), W_ms, W_braces>>
      [] st.kind = "frames_no_ms" -> <<W_frames, FmtNat(st.n), FmtNat(st.n)>>

StmtText(st) == JoinWords(StmtWords(st), 1, <<>>)

\* what may follow the closing braces: nothing, a line end, a comment, a
\* letter, a second file
Trailers ==
    {<<>>, <<"\n">>, <<" ", "/", "/", "x">>, <<"x">>, <<"{">> \o Escape(MissionName) \o <<"}">>}

\* the most closing braces of a sample text; two close the sequence and the file
MaxCloses == 3

\* n closing braces, each on its line
RECURSIVE Closes(_)
Closes(n) == IF n = 0 THEN <<>> ELSE <<"\n", "}">> \o Closes(n - 1)

\* the text of a file
FileText(a) ==
    <<"{">> \o Escape(MissionName) \o <<"\n", "{">> \o Escape(FirstName) \o <<" ">> \o
        StmtText(a.stmt) \o Closes(a.closes) \o a.trailer

InitText ==
    /\ pc = "start"
    /\ bs = NewBitStream(<<>>)
    /\ wire = <<>>
    /\ ret = Err(bs)
    /\ \E st \in GoodStmts \cup BadStmts, c \in 0..MaxCloses, t \in Trailers :
         arg = [stmt |-> st, closes |-> c, trailer |-> t]

\* fs::read_to_string: the text of the file
TextLoad ==
    /\ pc = "start"
    /\ wire' = FileText(arg)
    /\ pc' = "text"
    /\ UNCHANGED <<bs, arg, ret>>

\* TasFile::parse(input)
TextRead ==
    /\ pc = "text"
    /\ ret' = TasParse(bs, wire)
    /\ pc' = IF ret'.ok THEN "text_ok" ELSE "text_err"
    /\ UNCHANGED <<bs, arg, wire>>

NextText == TextLoad \/ TextRead

SpecText == InitText /\ [][NextText]_vars

(***************************************************************************)
(* Properties                                                              *)
(***************************************************************************)
\* C1: a value of n bits written at any bit offset and read back from the same
\* position is the value written.
C1_BitRoundTrip ==
    pc = "read" => (ret.ok /\ ret.val = AsType(arg.limbs, arg.ty))

\* C2: a Recording whose deltas are in 0..1023 and whose Move fields are on the
\* quantization grid is decoded from its encoding as the same Recording.
C2_RecordingRoundTrip ==
    (pc = "decoded" /\ \A i \in 1..Len(arg.rec.frames) : arg.rec.frames[i] \in GridFrames)
        => (ret.ok /\ ret.val = arg.rec)

\* mission "Test Mission", one Frame with no moves and delta 16
Example == [mission |-> TestMission, frames |-> <<NoMoveFrame(16)>>]

\* C3 as the spec states it: the example encodes to the mission, length byte 4,
\* payload 0x10 0 0 0 and a terminating zero byte.
C3_ExampleBytes_Original ==
    (pc = "encoded" /\ arg.rec = Example)
        => wire = <<12>> \o TestMission \o <<4, 16, 0, 0, 0, 0>>

\* C3 amended: the example encodes to the mission, length byte 4 and payload
\* 0x40 0 0 0 (two absent-slot bits, then delta 16), and nothing after it.
C3_ExampleBytes ==
    (pc = "encoded" /\ arg.rec = Example)
        => wire = <<12>> \o TestMission \o <<4, 64, 0, 0, 0>>

C3_Witness == pc = "encoded" /\ arg.rec = Example

\* C4: a Frame packs into fewer than 4 bytes exactly when it has no move; it is
\* then written as length byte 4, its packed bytes (the two absent bits and the
\* delta) and zero bytes up to 4, and Frame::from_stream on that blob yields it.
C4_FourByteFloor ==
    pc = "encoded" =>
        \A i \in 1..Len(arg.rec.frames) :
            /\ Len(Packed(arg.rec.frames[i])) < 4 <=> ~HasMove(arg.rec.frames[i])
            /\ ~HasMove(arg.rec.frames[i]) =>
                 /\ Len(Blobs(wire)[i]) = 4
                 /\ Blobs(wire)[i] = <<(arg.rec.frames[i].delta % 64) * 4,
                                       arg.rec.frames[i].delta \div 64, 0, 0>>
                 /\ Blobs(wire)[i] = Packed(arg.rec.frames[i]) \o <<0, 0>>
                 /\ FrameFromStream(NewBitStream(Blobs(wire)[i])).ok
                 /\ FrameFromStream(NewBitStream(Blobs(wire)[i])).val = arg.rec.frames[i]

\* two frames, the second without moves and with the largest delta
C4_Witness ==
    /\ pc = "encoded"
    /\ Len(arg.rec.frames) = 2
    /\ arg.rec.frames[2] = NoMoveFrame(1023)
    /\ Blobs(wire)[2] = <<252, 15, 0, 0>>

\* C5: bytes cut after the length byte of the last frame and before the last
\* byte of its blob decode without error to the mission and the frames before
\* the last one, as the complete bytes decode them.
C5_TruncationTolerance ==
    (pc = "decoded_cut" /\ Len(wire) > LastFrameStart(bs.data)) =>
        /\ ret.ok
        /\ ret.val.mission = arg.rec.mission
        /\ Len(ret.val.frames) = Len(arg.rec.frames) - 1
        /\ ret.val.frames =
             SubSeq(RecordingFromStream(NewBitStream(bs.data)).val.frames,
                    1, Len(arg.rec.frames) - 1)

\* two frames, the bytes end right after the length byte of the second
C5_Witness ==
    /\ pc = "decoded_cut"
    /\ Len(arg.rec.frames) = 2
    /\ Len(wire) = LastFrameStart(bs.data) + 1
    /\ Len(ret.val.frames) = 1

\* a name that the comment regex leaves alone and parse_str accepts
C6_NameKept(name) ==
    /\ name # <<>>
    /\ \A i \in 1..(Len(name) - 1) : ~(name[i] = "/" /\ name[i + 1] = "/")

\* a slot that is absent, or whose Move has its three angles and free-look set
C6_SlotKept(slot) ==
    slot = None \/
        (slot[1].yaw # None /\ slot[1].pitch # None /\ slot[1].roll # None /\ slot[1].freelook)

\* a TasFile whose names and Moves the text form keeps
C6_Kept(tas) ==
    /\ C6_NameKept(tas.mission)
    /\ \A k \in 1..Len(tas.sequences) :
         /\ C6_NameKept(tas.sequences[k].name)
         /\ \A i \in 1..Len(tas.sequences[k].frames) :
              /\ C6_SlotKept(tas.sequences[k].frames[i].moves[1])
              /\ C6_SlotKept(tas.sequences[k].frames[i].moves[2])

\* C6 as the spec states it: for any TasFile, Moves with absent angles or
\* free-look = false included, parsing the printed text succeeds and gives the
\* same Frames in the same order.
C6_TextRoundTrip_Original ==
    pc \in {"parsed", "parse_err"} =>
        (ret.ok /\ IntoRec(ret.val).frames = IntoRec(arg.tas).frames)

\* C6 amended: for a TasFile whose names are non-empty and hold no `//` and
\* whose present Moves all have yaw, pitch and roll present and free-look =
\* true, parsing the printed text succeeds and gives the same Frames in the
\* same order.
C6_TextRoundTrip ==
    (pc \in {"parsed", "parse_err"} /\ C6_Kept(arg.tas)) =>
        (ret.ok /\ IntoRec(ret.val).frames = IntoRec(arg.tas).frames)

\* two sequences, a Frame with both Moves in the first, read back
C6_Witness ==
    /\ pc = "parsed"
    /\ Len(arg.tas.sequences) = 2
    /\ arg.tas.sequences[1].frames = <<[moves |-> <<Some(TasMove), Some(TasMove)>>, delta |-> 65535]>>
    /\ arg.tas.sequences[2].frames = <<NoMoveFrame(33)>>
    /\ ret.val.sequences[1].frames = arg.tas.sequences[1].frames

\* the lines of a text
RECURSIVE C7_Lines(_, _, _)
C7_Lines(txt, i, acc) ==
    IF Len(acc) < 0 \/ i > Len(txt) THEN acc
    ELSE C7_Lines(txt, SpanNot(txt, i, {"\n"}) + 1,
                  Append(acc, SubSeq(txt, i, SpanNot(txt, i, {"\n"}) - 1)))

\* a line that holds a statement: six blanks and a keyword
C7_IsStatement(line) ==
    Len(line) > 6 /\ SubSeq(line, 1, 6) = Spaces(6) /\ line[7] \in {"f", "m"}

\* the statements of a printed text, their comments left out
C7_Statements(txt) == SelectSeq(C7_Lines(StripComments(txt), 1, <<>>), C7_IsStatement)

\* Frame i begins a run of no-move Frames of one delta
C7_RunStart(frames, i) ==
    /\ ~HasMove(frames[i])
    /\ i = 1 \/ HasMove(frames[i - 1]) \/ frames[i - 1].delta # frames[i].delta

\* the length of the maximal run from Frame i on
C7_RunLength(frames, i) ==
    Cardinality({j \in i..Len(frames) :
                    \A k \in i..j : ~HasMove(frames[k]) /\ frames[k].delta = frames[i].delta})

\* the statement that stands for the Frames from i on
C7_Statement(frames, i) ==
    Spaces(6) \o
        (IF HasMove(frames[i]) THEN W_moveframe
         ELSE IF C7_RunLength(frames, i) >= 2
         THEN W_frames \o <<" ">> \o FmtNat(C7_RunLength(frames, i))
         ELSE W_frame)
        \o <<" ">> \o FmtNat(frames[i].delta) \o <<" ", "m", "s", " ">>

\* one statement for every Frame with a move and for every maximal run
RECURSIVE C7_Expected(_, _)
C7_Expected(frames, i) ==
    IF i > Len(frames) THEN <<>>
    ELSE (IF HasMove(frames[i]) \/ C7_RunStart(frames, i)
          THEN <<C7_Statement(frames, i)>> ELSE <<>>) \o C7_Expected(frames, i + 1)

\* the statements of the sequences, one sequence after the other
RECURSIVE C7_ExpectedAll(_, _)
C7_ExpectedAll(sequences, k) ==
    IF k > Len(sequences) THEN <<>>
    ELSE C7_Expected(sequences[k].frames, 1) \o C7_ExpectedAll(sequences, k + 1)

\* C7: the printed statements of each Sequence are, in Frame order, one
\* `frames k d ms` for every maximal run of k >= 2 no-move Frames of delta d,
\* one `frame d ms` for every other no-move Frame and one `moveframe d ms` for
\* every Frame with a move.
C7_Compaction ==
    pc = "printed" =>
        C7_Statements(wire) = C7_ExpectedAll(arg.tas.sequences, 1)

\* five no-move Frames of delta 33 printed as `frames 5 33 ms`
C7_Witness ==
    /\ pc = "printed"
    /\ Len(arg.tas.sequences) = 1
    /\ arg.tas.sequences[1].frames = FiveFrames
    /\ C7_Statements(wire) =
         << <<" ", " ", " ", " ", " ", " ", "f", "r", "a", "m", "e", "s", " ", "5", " ",
              "3", "3", " ", "m", "s", " ">> >>

\* -pi <= a < pi
C8_InDomain(a) == FGe(a, FNeg(PI)) /\ FLt(a, PI)

\* a negative angle so small that a + 2 * PI is 2 * PI in f64: -2^-51 <= a < 0
C8_RoundsToTwoPI(a) == FLt(a, FZero) /\ FGe(a, FNeg(FPow2(-51)))

C9_TranslationRange_Original ==
    (pc = "move_read" /\ ret.ok) =>
        \A v \in {ret.val.mx, ret.val.my, ret.val.mz} :
            FGe(v, FInt(-1)) /\ FGe(FDiv(FInt(15), FInt(16)), v)

\* C9 amended: the translations of every Move that Move::from_stream decodes
\* lie in [-1.0, 2.9375], the image of the 6-bit codes 0..63 under
\* raw * 1/16 - 1.0.
C9_TranslationRange ==
    (pc = "move_read" /\ ret.ok) =>
        \A v \in {ret.val.mx, ret.val.my, ret.val.mz} :
            FGe(v, FInt(-1)) /\ FGe(FDiv(FInt(47), FInt(16)), v)

\* a Move decoded from a stream of ones: its angles present, mx the largest
\* translation
C9_Witness ==
    /\ pc = "move_read"
    /\ ret.ok
    /\ ret.val.yaw # None
    /\ ret.val.mx = FDiv(FInt(47), FInt(16))

\* C10: a write of fewer bits than the type holds returns an error exactly when
\* the value does not fit in those bits; a write of the full width accepts every
\* value.
C10_WriteRangeCheck ==
    pc \in {"written", "write_err"} =>
        (ret.ok <=> (arg.bits = arg.ty \/ FitsLimbs(MaskLimbs(arg.limbs, arg.ty), arg.bits)))

\* a 32-bit write of 17 bits is refused for a value of 32 bits
C10_Witness ==
    /\ pc = "write_err"
    /\ arg.ty = 32 /\ arg.bits = 17
    /\ arg.limbs = <<65535, 65535, 0, 0>>

\* the condition under which read_bits_u8(n) is to fail, for a cursor (b, o)
\* over len bytes
C11_MustFail(len, b, o, n) == n > 8 \/ b >= len \/ (b = len - 1 /\ o + n > 8)

\* C11: read_bits_u8(n) returns an error exactly when n > 8, or the cursor is
\* at or after the end, or it is in the last byte and o + n > 8; a read of
\* 1..8 bits that succeeds touches no byte at or beyond len and moves the
\* cursor by exactly n bits, the bit offset staying in 0..7.
C11_ReadFailure ==
    /\ pc \in {"read_ok", "read_err"} =>
         (~ret.ok <=> C11_MustFail(Len(arg.data), arg.b, arg.o, arg.n))
    /\ pc = "read_panic" => ~C11_MustFail(Len(arg.data), arg.b, arg.o, arg.n)
    /\ (pc = "read_ok" /\ arg.n >= 1) =>
         /\ arg.b < Len(arg.data)
         /\ arg.o + arg.n > 8 => arg.b + 1 < Len(arg.data)
         /\ bs.bit_offset \in 0..7
         /\ 8 * bs.byte_offset + bs.bit_offset = 8 * arg.b + arg.o + arg.n
         /\ bs.data = arg.data

\* a read that ends with the last byte of the buffer
C11_Witness ==
    /\ pc = "read_ok"
    /\ Len(arg.data) = 2 /\ arg.b = 1 /\ arg.o = 3 /\ arg.n = 5
    /\ bs.byte_offset = 2 /\ bs.bit_offset = 0

\* a text of the driver that is a tasfile of the grammar from its first to its
\* last character, comments and white space aside
C12_Grammatical(a) ==
    /\ a.stmt \in GoodStmts
    /\ a.closes = 2
    /\ a.trailer \in {<<>>, <<"\n">>, <<" ", "/", "/", "x">>}

\* C12: TasFile::parse returns an error for every text that is not, as a
\* whole, a tasfile of the grammar: a malformed statement, a missing closing
\* brace, an unknown keyword, characters after the closing brace.
C12_NoPartialParse ==
    (pc \in {"text_ok", "text_err"} /\ ~C12_Grammatical(arg)) => ~ret.ok

\* a grammatical tasfile with characters left over after its closing brace
C12_LeftOver(a) == a.stmt \in GoodStmts /\ a.closes >= 2 /\ ~C12_Grammatical(a)

\* a violation before the closing brace of the tasfile makes parse fail
C12_ViolationInside ==
    (pc \in {"text_ok", "text_err"} /\ ~C12_Grammatical(arg) /\ ~C12_LeftOver(arg))
        => ~ret.ok

\* a grammatical text is parsed
C12_GrammaticalParsed ==
    (pc \in {"text_ok", "text_err"} /\ C12_Grammatical(arg)) => ret.ok

\* n Frames with both slots absent and the delta given
C16_NoMoves(n, delta) == [k \in 1..n |-> NoMoveFrame(delta)]

\* the Frames the no-move statements of a sample stand for
C16_Expected(st) ==
    CASE st.kind = "frame" -> C16_NoMoves(1, st.n)
      [] st.kind = "frames" -> C16_NoMoves(st.n, 1)
      [] st.kind = "frames_ms" -> C16_NoMoves(st.n, st.m)
      [] st.kind = "frame_frames" -> C16_NoMoves(1, st.n) \o C16_NoMoves(st.m, 1)

\* C16: in a sequence `frame N ms` is parsed as one Frame with both slots
\* absent and delta N, `frames N` as N such Frames of delta 1, `frames N M ms`
\* as N such Frames of delta M; `frames` is not read as `frame` with text
\* after it, nor `frame` as the start of `frames`.
C16_NoMoveStatements ==
    (/\ pc \in {"text_ok", "text_err"}
     /\ arg.closes >= 2
     /\ arg.stmt.kind \in {"frame", "frames", "frames_ms", "frame_frames"}) =>
        /\ ret.ok
        /\ Len(ret.val.sequences) = 1
        /\ ret.val.sequences[1].frames = C16_Expected(arg.stmt)

\* `frame 7 ms` and `frames 2` in one sequence: three Frames
C16_Witness ==
    /\ pc = "text_ok"
    /\ arg.stmt = [kind |-> "frame_frames", n |-> 7, m |-> 2]
    /\ ret.val.sequences[1].frames = <<NoMoveFrame(7), NoMoveFrame(1), NoMoveFrame(1)>>

\* bytes followed by zeros up to n bytes
C13_Padded(bytes, n) == bytes \o [k \in 1..(n - Len(bytes)) |-> 0]

\* from position pos on (the bytes before it are done), w is one group of a
\* length byte L, 4 <= L <= 255, and L bytes for each Frame from i on, each
\* the packed Frame padded with zeros, and nothing else
RECURSIVE C13_Groups(_, _, _, _)
C13_Groups(w, pos, frames, i) ==
    IF i > Len(frames) THEN pos = Len(w)
    ELSE /\ pos + 1 <= Len(w)
         /\ w[pos + 1] >= 4 /\ w[pos + 1] <= 255
         /\ pos + 1 + w[pos + 1] <= Len(w)
         /\ w[pos + 1] >= Len(Packed(frames[i]))
         /\ SubSeq(w, pos + 2, pos + 1 + w[pos + 1]) =
                C13_Padded(Packed(frames[i]), w[pos + 1])
         /\ C13_Groups(w, pos + 1 + w[pos + 1], frames, i + 1)

\* C13: the bytes of a Recording that encodes are the length-prefixed mission
\* and then, for each Frame in order, a length byte L with 4 <= L <= 255 and L
\* bytes; nothing follows the last Frame, and no length byte is zero.
C13_EncodedShape ==
    pc = "encoded" =>
        /\ Len(wire) >= 1 + Len(arg.rec.mission)
        /\ wire[1] = Len(arg.rec.mission)
        /\ SubSeq(wire, 2, 1 + Len(arg.rec.mission)) = arg.rec.mission
        /\ C13_Groups(wire, 1 + Len(arg.rec.mission), arg.rec.frames, 1)

\* a Frame of 21 bytes and a Frame padded to 4 bytes after the mission
C13_Witness ==
    /\ pc = "encoded"
    /\ arg.rec.mission = TestMission
    /\ Len(arg.rec.frames) = 2
    /\ arg.rec.frames[2] = NoMoveFrame(16)
    /\ wire[14] > 4
    /\ wire[Len(wire) - 4] = 4
    /\ Len(wire) = 13 + 1 + wire[14] + 5

\* bit i (from 0, low bit of a byte first) of a blob, 0 behind its end
C14_BitAt(blob, i) ==
    IF i >= 8 * Len(blob) THEN 0 ELSE (blob[(i \div 8) + 1] \div Pow2(i % 8)) % 2

\* where an optional angle that starts at bit p ends
C14_AngleEnd(blob, p) == p + 1 + 16 * C14_BitAt(blob, p)

\* where a Move that starts at bit p ends: three optional angles, three
\* translations of 6 bits, free-look, six triggers
C14_MoveEnd(blob, p) ==
    C14_AngleEnd(blob, C14_AngleEnd(blob, C14_AngleEnd(blob, p))) + 18 + 1 + 6

\* where an optional Move that starts at bit p ends
C14_SlotEnd(blob, p) ==
    IF C14_BitAt(blob, p) = 1 THEN C14_MoveEnd(blob, p + 1) ELSE p + 1

\* the bits the Frame of a blob takes, by its own presence bits
C14_FrameBits(blob) == C14_SlotEnd(blob, C14_SlotEnd(blob, 0)) + 10

\* a blob long enough for its Frame
C14_Whole(blob) == C14_FrameBits(blob) <= 8 * Len(blob)

\* the Frame of each blob, read from its bit 0
C14_FramesOf(blobs) ==
    [k \in 1..Len(blobs) |-> FrameFromStream(NewBitStream(blobs[k])).val]

\* C14: from_stream gives one Frame for each whole blob before the first zero
\* length byte or the end of the bytes, in order, each read from bit 0 of its
\* own blob; at a zero length byte it stops with Ok and reads nothing more.
C14_DecodeFraming ==
    (pc \in {"file_ok", "file_err"} /\ \A k \in 1..Len(arg.blobs) : C14_Whole(arg.blobs[k])) =>
        /\ ret.ok
        /\ ret.val.mission = <<65>>
        /\ ret.val.frames = C14_FramesOf(arg.blobs)
        /\ arg.end.kind = "zero" =>
             bs.byte_offset = Len(wire) - Len(arg.end.bytes) + 1
        /\ arg.end.kind # "zero" => bs.byte_offset = Len(wire)

\* two blobs, a zero length byte and a blob that is too short after it
C14_Witness ==
    /\ pc = "file_ok"
    /\ arg.blobs = <<<<1, 0, 0, 0, 0>>, <<252, 255, 0, 0>>>>
    /\ arg.end = [kind |-> "zero", bytes |-> <<0, 1, 1>>]
    /\ ret.val.frames = <<[moves |-> <<Some(MoveMin), None>>, delta |-> 0], NoMoveFrame(1023)>>
    /\ bs.byte_offset = Len(wire) - 2

\* C17: a whole blob that is too short for the fields its presence bits
\* declare makes from_stream return an error, also after Frames that were
\* read; bytes that end inside the last blob do not.
C17_ShortBlobFails ==
    /\ (pc \in {"file_ok", "file_err"} /\ \E k \in 1..Len(arg.blobs) : ~C14_Whole(arg.blobs[k]))
            => ~ret.ok
    /\ (pc \in {"file_ok", "file_err"} /\ ~ret.ok)
            => \E k \in 1..Len(arg.blobs) : ~C14_Whole(arg.blobs[k])

\* a Frame read, then a blob of 4 bytes with slot 0 present: an error
C17_Witness ==
    /\ pc = "file_err"
    /\ arg.blobs = <<<<64, 0, 0, 0>>, <<1, 0, 0, 0>>>>
    /\ C14_FrameBits(arg.blobs[2]) = 40

\* bytes that end inside the last blob, after two Frames: no error
C17_CutWitness ==
    /\ pc = "file_ok"
    /\ arg.end.kind = "cut"
    /\ Len(arg.blobs) = 2
    /\ Len(ret.val.frames) = 2

\* twice the raw quantity (value + 1) * 16 of the sample value j / 32
C15_Raw2(a) == a.j + 32

\* the raw quantity cut to an integer is 2^bits or more
C15_TooLarge(a) == C15_Raw2(a) >= 2 * Pow2(a.bits)

\* the raw quantity is -1 or less
C15_Negative(a) == C15_Raw2(a) <= -2

\* the raw quantity cut toward zero, reduced modulo 2^bits
C15_Wrapped(a) ==
    IF C15_Raw2(a) >= 0 THEN (C15_Raw2(a) \div 2) % Pow2(a.bits)
    ELSE (Pow2(a.bits) - (((0 - C15_Raw2(a)) \div 2) % Pow2(a.bits))) % Pow2(a.bits)

\* C15 as the spec states it: for a value whose raw quantity is 2^bits or
\* more, or negative, write_scaled_f64_bits succeeds and writes the raw
\* quantity modulo 2^bits.
C15_SilentWrap_Original ==
    (pc \in {"scaled_written", "scaled_err"} /\ (C15_TooLarge(arg) \/ C15_Negative(arg))) =>
        (ret.ok /\ bs.data = <<C15_Wrapped(arg)>>)

\* C15 amended: write_scaled_f64_bits checks no range itself; for a raw
\* quantity of 2^bits or more the write of its integer returns the range
\* error and writes nothing; for a negative raw quantity the call succeeds
\* and writes 0; in range it writes the raw quantity cut to an integer.
C15_OutOfRange ==
    pc \in {"scaled_written", "scaled_err"} =>
        /\ C15_TooLarge(arg) => (~ret.ok /\ bs.data = <<>> /\ bs.bit_offset = 0)
        /\ C15_Raw2(arg) < 0 => (ret.ok /\ bs.data = <<0>> /\ bs.bit_offset = arg.bits)
        /\ (C15_Raw2(arg) >= 0 /\ ~C15_TooLarge(arg)) =>
             (ret.ok /\ bs.data = <<C15_Raw2(arg) \div 2>> /\ bs.bit_offset = arg.bits)

\* mx = 3.0 with 6 bits: the raw quantity is 64 and the call fails
C15_Witness ==
    /\ pc = "scaled_err"
    /\ arg.value = FInt(3) /\ arg.bits = 6
    /\ bs.data = <<>>

\* mx = -2.0 with 6 bits: the raw quantity is -16 and 0 is written
C15_NegativeWitness ==
    /\ pc = "scaled_written"
    /\ arg.value = FInt(-2) /\ arg.bits = 6
    /\ bs.data = <<0>>

\* C18: from an empty stream, after any writes that succeeded the bit offset
\* is in 0..7, the buffer has byte_offset + 1 bytes when the bit offset is not
\* 0 and byte_offset bytes when it is, the bits of the buffer at and above the
\* cursor are 0, and 8 * byte_offset + bit_offset bits were written.
C18_WriterCursor ==
    pc \in {"start", "wrote", "refused"} =>
        /\ bs.bit_offset \in 0..7
        /\ bs.bit_offset # 0 =>
             (Len(bs.data) = bs.byte_offset + 1 /\
              bs.data[bs.byte_offset + 1] < Pow2(bs.bit_offset))
        /\ bs.bit_offset = 0 => Len(bs.data) = bs.byte_offset
        /\ 8 * bs.byte_offset + bs.bit_offset = arg.total

\* three writes, the last one over the end of a byte: its second part is the
\* byte under the cursor
C18_Witness ==
    /\ pc = "wrote"
    /\ arg.count = 3 /\ arg.total = 21
    /\ bs.byte_offset = 2 /\ bs.bit_offset = 5
    /\ Len(bs.data) = 3
    /\ bs.data[3] = 31

\* the first Frame with a delta above 1023, or one more than the Frames
C19_FirstOver(frames) ==
    CHOOSE k \in 1..(Len(frames) + 1) :
        /\ k <= Len(frames) => frames[k].delta > 1023
        /\ \A i \in 1..(k - 1) : frames[i].delta <= 1023

\* C19: a Recording with a Frame whose delta is above 1023 is not encoded:
\* into_stream returns the range error, and what it wrote before holds only
\* Frames in front of that Frame, none with the delta modulo 1024.
C19_DeltaRejected ==
    (pc \in {"encoded", "encode_err"} /\ C19_FirstOver(arg.rec.frames) <= Len(arg.rec.frames)) =>
        /\ ~ret.ok
        /\ \E j \in 0..(C19_FirstOver(arg.rec.frames) - 1) :
              /\ Len(bs.data) >= 1 + Len(arg.rec.mission)
              /\ C13_Groups(bs.data, 1 + Len(arg.rec.mission),
                            SubSeq(arg.rec.frames, 1, j), 1)

\* a Frame of delta 16 written, then a Frame with a Move and delta 65535
\* refused
C19_Witness ==
    /\ pc = "encode_err"
    /\ arg.rec.mission = <<>>
    /\ Len(arg.rec.frames) = 2
    /\ arg.rec.frames[1] = NoMoveFrame(16)
    /\ arg.rec.frames[2].delta = 65535
    /\ bs.data = <<0, 4, 64, 0, 0, 0>>

\* the names of a TasFile: the mission, then the names of the sequences
C20_Names(tas) == <<tas.mission>> \o [k \in 1..Len(tas.sequences) |-> tas.sequences[k].name]

\* the names are non-empty and hold no `//`
C20_NamesKept(tas) == \A k \in 1..Len(C20_Names(tas)) : C6_NameKept(C20_Names(tas)[k])

\* C20: for a TasFile whose names are non-empty, hold no `//` and may hold
\* `"` and `\`, parsing the printed text gives the same mission and the same
\* sequence names, character for character.
C20_NameRoundTrip ==
    (pc \in {"parsed", "parse_err"} /\ C20_NamesKept(arg.tas)) =>
        (ret.ok /\ C20_Names(ret.val) = C20_Names(arg.tas))

\* a name without `"` and `\`
C20_Plain(name) == \A i \in 1..Len(name) : name[i] \notin {"\"", "\\"}

\* the names without `"` and `\` are read back as they were, and the others
\* as TasFile::escape wrote them between the quotes
C20_NamesAsEscaped ==
    (pc \in {"parsed", "parse_err"} /\ C20_NamesKept(arg.tas)) =>
        /\ ret.ok
        /\ Len(C20_Names(ret.val)) = Len(C20_Names(arg.tas))
        /\ \A k \in 1..Len(C20_Names(arg.tas)) :
              /\ C20_Names(ret.val)[k] = EscapeFrom(C20_Names(arg.tas)[k], 1, <<>>)
              /\ C20_Plain(C20_Names(arg.tas)[k]) =>
                   C20_Names(ret.val)[k] = C20_Names(arg.tas)[k]

====
